---- MODULE Spec2Model ----
(***************************************************************************)
(* A model of the file storage service of cazzano/local_database.          *)
(*                                                                         *)
(*  - the operation tracker of the stable file server (backup, restore,    *)
(*    chunked restore, their background threads): SpecOps, SpecRestore;    *)
(*  - the upload handlers of the alpha file server (single file, zip,      *)
(*    multi-file folder, streamed tar): SpecIngest.                        *)
(*                                                                         *)
(* Paths are sequences of segments; a file tree is a function from the    *)
(* paths of its files to their contents.                                   *)
(***************************************************************************)
EXTENDS Integers, Sequences, FiniteSets, TLC

\* ------------------------------------------------------------------ bounds
MaxOps == 2
MaxClock == 1
MaxChunks == 2
MaxLen == 3
MaxChunked == 1
MaxEntries == 4
MaxBase == 3
MaxItems == 2
MaxBindings == 2
MaxUploads == 2
MaxName == 3
MaxSegs == 3
MaxCalls == 3
MaxFiles == 2
MaxRuns == 2
MaxTime == 15
MaxSecond == 1
MaxTicks == 3
MaxRequests == 4

VARIABLES
    now,                \* time.time() * 1000, truncated: the millisecond clock
    active_operations,  \* operation id -> registry entry
    tasks,              \* the background threads started so far, in start order
    db,                 \* the live tree below DB_FOLDER: file path -> content
    tmp_restore,        \* <tempdir>/restore_<id>.zip: id -> bytes
    tmp_backup,         \* <tempdir>/db_backup_<id>.zip: id -> bytes
    chunk_dirs,         \* <tempdir>/restore_chunks_<id>: id -> (chunk number -> bytes)
    backup_folders,     \* db_backup_before_restore_<id>: id -> tree
    hist,               \* history of each registry entry (not program state)
    nreq                \* operation-creating requests served so far

varsOps == <<now, active_operations, tasks, db, tmp_restore, tmp_backup,
             chunk_dirs, backup_folders, hist, nreq>>

\* the upload handlers of the alpha file server
VARIABLES
    u_kind,         \* the upload being handled: "single", "zip", "multi" or "tar"
    u_pc,           \* where its handler is
    u_archive,      \* what was uploaded: entry path -> "dir" | "file"
    u_failed,       \* the step that raised, "none" if none did
    u_root,         \* current_dir: the folder whose contents are moved
    u_files,        \* uploaded_files: file path -> outcome of its binding update
    staging_exists, \* whether temp_extract_dir exists
    staging,        \* what it holds: entry path -> "dir" | "file"
    dest,           \* what folder_path holds: entry path -> "dir" | "file"
    type_dir,       \* the files of <UPLOAD_FOLDER>/<category>/<type>: name -> content
    u_saved,        \* the name the single uploaded file is stored under
    binding,        \* the item's StaticBinding in the metadata service
    resp,           \* the HTTP status answered, 0 before the answer
    u_count         \* the single-file uploads answered so far

varsIngest == <<u_kind, u_pc, u_archive, u_failed, u_root, u_files,
                staging_exists, staging, dest, type_dir, u_saved, binding, resp,
                u_count>>

\* one call of predict_item_id
VARIABLES
    m_pc,           \* "off", "call" before the call, "done" after it
    m_file_path,    \* file_path, a string as the sequence of its pieces
    m_items,        \* items_dict, in iteration order
    m_static,       \* static_resources, in iteration order
    m_result        \* what the call returned

varsMatcher == <<m_pc, m_file_path, m_items, m_static, m_result>>

\* one call of sanitize_filename
VARIABLES
    s_pc,           \* "off", "call" before the call, "done" after it
    s_name,         \* name, a string as the sequence of its characters
    s_result        \* what the call returned

varsSanitize == <<s_pc, s_name, s_result>>

\* one request to the read-side routes of serve.py
VARIABLES
    r_pc,           \* "off", "idle" before the request, "done" after the answer
    r_handler,      \* the route that took the request
    r_path,         \* the path of the request after the route's prefix
    r_read,         \* the files and directories read, as locations from /
    r_status        \* the HTTP status answered, 0 before the answer

varsServe == <<r_pc, r_handler, r_path, r_read, r_status>>

\* one upload seen as the places it writes to
VARIABLES
    p_pc,           \* "off", "call" before the upload, "done" after it
    p_details,      \* the item details the metadata service gave
    p_name,         \* the filename, relative path or member name the client sent
    p_handler,      \* the upload that ran
    p_outcome,      \* "refused" before any write, "raised" by a write, "placed"
    p_written       \* the locations written to

varsPlace == <<p_pc, p_details, p_name, p_handler, p_outcome, p_written>>

\* the binding store of the backend, and the listing and the synchronizer of
\* the file server that read and write it
VARIABLES
    b_table,        \* the rows of item_static, in rowid order
    b_last,         \* the last call of the store and what it answered
    b_calls,        \* the calls of the store made
    f_tree,         \* the files under the storage root, in the order os.walk gives
    f_items,        \* the rows of items, in rowid order
    f_handler,      \* the route that answered last
    f_report,       \* the "files" of its answer
    f_runs,         \* the runs of the synchronizer made
    f_first         \* the answer and the store after the first run

varsSync == <<b_table, b_last, b_calls, f_tree, f_items, f_handler, f_report,
              f_runs, f_first>>

\* one operation of the stable file server from its start to its removal, on a
\* clock of 300 seconds a tick
VARIABLES
    g_now,          \* time.time(), in ticks
    g_registry,     \* active_operations: <<>> or the operation's entry
    g_thread,       \* the background thread: "none", "running", "done"
    g_files,        \* the temporary files and directories of the operation
    g_timers,       \* the times at which the threading.Timer's started fire
    g_hist          \* what the operation was and when it ended (not program state)

varsGc == <<g_now, g_registry, g_thread, g_files, g_timers, g_hist>>

\* two tar uploads under one category and type, each handled by its own thread
VARIABLES
    t_second,       \* datetime.now(), to the second
    t_pc,           \* per upload: "idle", "staged", "copied", "done"
    t_request,      \* per upload: its item_id and its archive's top directory
    t_stamp,        \* per upload: its timestamp
    t_temp,         \* per timestamp: does temp_<timestamp> exist, and its paths
    t_dest,         \* per folder name: the paths in the folder
    t_resp          \* per upload: its status code, 0 before it answers

varsStage == <<t_second, t_pc, t_request, t_stamp, t_temp, t_dest, t_resp>>

\* two single-file uploads for one item, each handled by its own thread
VARIABLES
    k_dir,          \* the item's directory: file name -> content
    k_pc,           \* per upload: "idle", "saved", "probed", "done"
    k_saved,        \* per upload: original_file_path
    k_new,          \* per upload: new_file_path
    k_renamed       \* per upload: renamed_file_path

varsRace == <<k_dir, k_pc, k_saved, k_new, k_renamed>>

\* rate_limit of the stable file server, with two request threads
VARIABLES
    q_now,          \* time.time(), in ticks
    q_history,      \* request_history: ip -> the list of times
    q_pc,           \* per thread: "idle", "filtered", "stored", "admitted"
    q_local,        \* per thread: ip, current_time and the filtered list
    q_count,        \* the requests so far
    q_admitted,     \* the requests let through, as <<ip, time>> (not program state)
    q_last          \* the last answer of rate_limit (not program state)

varsRate == <<q_now, q_history, q_pc, q_local, q_count, q_admitted, q_last>>

\* the item metadata cache of the stable file server
VARIABLES
    i_now,          \* time.time(), in ticks
    i_cache,        \* items_cache: timestamp and data
    i_last,         \* the last call of fetch_items (not program state)
    i_hist          \* the successful fetches so far (not program state)

varsCache == <<i_now, i_cache, i_last, i_hist>>

\* the /files endpoint of the stable file server
VARIABLES
    h_dirs,         \* the directories db/<category>/<type> that exist
    h_files,        \* <<category, type, filename>> -> the item_id it was uploaded with
    h_last          \* the last request, its answer and the tree before it (not program state)

varsFiles == <<h_dirs, h_files, h_last>>

\* what an action of the operation tracker leaves alone
varsNotOps == <<varsIngest, varsMatcher, varsSanitize, varsServe, varsPlace, varsSync, varsGc, varsStage, varsRace, varsRate, varsCache, varsFiles>>

\* what an action of the upload handlers leaves alone
varsNotIngest == <<varsOps, varsMatcher, varsSanitize, varsServe, varsPlace, varsSync, varsGc, varsStage, varsRace, varsRate, varsCache, varsFiles>>

\* what a call of predict_item_id leaves alone
varsNotMatcher == <<varsOps, varsIngest, varsSanitize, varsServe, varsPlace, varsSync, varsGc, varsStage, varsRace, varsRate, varsCache, varsFiles>>

\* what a call of sanitize_filename leaves alone
varsNotSanitize == <<varsOps, varsIngest, varsMatcher, varsServe, varsPlace, varsSync, varsGc, varsStage, varsRace, varsRate, varsCache, varsFiles>>

\* what a read-side request leaves alone
varsNotServe == <<varsOps, varsIngest, varsMatcher, varsSanitize, varsPlace, varsSync, varsGc, varsStage, varsRace, varsRate, varsCache, varsFiles>>

\* what the placement of an upload leaves alone
varsNotPlace == <<varsOps, varsIngest, varsMatcher, varsSanitize, varsServe, varsSync, varsGc, varsStage, varsRace, varsRate, varsCache, varsFiles>>

\* what the binding store, the listing and the synchronizer leave alone

varsNotSync == <<varsOps, varsIngest, varsMatcher, varsSanitize, varsServe, varsPlace, varsGc, varsStage, varsRace, varsRate, varsCache, varsFiles>>

\* what the retention of an operation leaves alone

varsNotGc == <<varsOps, varsIngest, varsMatcher, varsSanitize, varsServe, varsPlace, varsSync, varsStage, varsRace, varsRate, varsCache, varsFiles>>


varsNotStage == <<varsOps, varsIngest, varsMatcher, varsSanitize, varsServe, varsPlace, varsSync, varsGc, varsRace, varsRate, varsCache, varsFiles>>


varsNotRace == <<varsOps, varsIngest, varsMatcher, varsSanitize, varsServe, varsPlace, varsSync, varsGc, varsStage, varsRate, varsCache, varsFiles>>


varsNotRate == <<varsOps, varsIngest, varsMatcher, varsSanitize, varsServe, varsPlace, varsSync, varsGc, varsStage, varsRace, varsCache, varsFiles>>


varsNotCache == <<varsOps, varsIngest, varsMatcher, varsSanitize, varsServe, varsPlace, varsSync, varsGc, varsStage, varsRace, varsRate, varsFiles>>


varsNotFiles == <<varsOps, varsIngest, varsMatcher, varsSanitize, varsServe, varsPlace, varsSync, varsGc, varsStage, varsRace, varsRate, varsCache>>

\* ------------------------------------------------------------ data
DB_FOLDER == "db"

Paths == {<<DB_FOLDER, "a">>, <<DB_FOLDER, "b">>}

\* member names an uploaded archive may carry: files of the tree, and one outside
MemberPaths == Paths \cup {<<"etc", "x">>}

Contents == {1, 2}

EmptyTree == <<>>

Trees == UNION {[S -> Contents] : S \in SUBSET Paths}

Restrict(f, S) == [x \in S |-> f[x]]

SubTrees(f) == {Restrict(f, S) : S \in SUBSET DOMAIN f}

Put(f, k, v) == (k :> v) @@ f

Drop(f, k) == Restrict(f, DOMAIN f \ {k})

SeqsUpTo(S, n) == UNION {[1..k -> S] : k \in 0..n}

\* The bytes of a zip file, as a sequence of tokens: a stored file (its name and
\* data), a damaged stretch, or the end-of-central-directory record.
FileTok(p, d) == [k |-> "file", path |-> p, data |-> d]

BadTok == [k |-> "bad", path |-> <<>>, data |-> 0]

Eocd == [k |-> "eocd", path |-> <<>>, data |-> 0]

Tokens == {FileTok(p, d) : p \in MemberPaths, d \in Contents} \cup {BadTok, Eocd}

\* zipfile.ZipFile(path): the central directory is found from the end of the file
IsZip(bytes) == Len(bytes) > 0 /\ bytes[Len(bytes)] = Eocd

\* zip_ref.namelist(): the members before the end record
Members(bytes) == SubSeq(bytes, 1, Len(bytes) - 1)

\* member.startswith(f'{DB_FOLDER}/')
StartsWithDb(p) == Len(p) >= 2 /\ p[1] = DB_FOLDER

\* os.walk(DB_FOLDER) visits the files in one fixed order
WalkOrder == <<<<DB_FOLDER, "a">>, <<DB_FOLDER, "b">>>>

RECURSIVE ZipOfFrom(_, _)
ZipOfFrom(tree, i) ==
    IF i > Len(WalkOrder) THEN <<Eocd>>
    ELSE IF WalkOrder[i] \in DOMAIN tree
         THEN <<FileTok(WalkOrder[i], tree[WalkOrder[i]])>> \o ZipOfFrom(tree, i + 1)
         ELSE ZipOfFrom(tree, i + 1)

\* zf.write(file_path, arcname=file_path) for every file of the walk
ZipOf(tree) == ZipOfFrom(tree, 1)

\* ------------------------------------------------------------ registry
Entry(type, status, total) ==
    [type |-> type, status |-> status, start_time |-> now,
     chunks_received |-> 0, total_chunks |-> total,
     file_path |-> FALSE, error |-> FALSE]

Thread(fn, id) ==
    [fn |-> fn, op |-> id, pc |-> IF fn = "backup" THEN "zip" ELSE "copy",
     z |-> <<>>, i |-> 0,
     T |-> db, raised |-> "none", rollback |-> "none"]

History(owner) ==
    [owner |-> owner, sent |-> <<>>, joined |-> <<>>,
     concats |-> 0, starts |-> 0]

\* generate_operation_id(): str(int(time.time() * 1000))
generate_operation_id == now

Terminal == {"completed", "failed"}

SetStatus(id, s) == [active_operations EXCEPT ![id].status = s]

InitOpsState ==
    /\ now = 0
    /\ active_operations = <<>>
    /\ tasks = <<>>
    /\ tmp_restore = <<>>
    /\ tmp_backup = <<>>
    /\ chunk_dirs = <<>>
    /\ backup_folders = <<>>
    /\ hist = <<>>
    /\ nreq = 0

\* the clock advances
Tick ==
    /\ now < MaxClock
    /\ now' = now + 1
    /\ UNCHANGED varsNotOps
    /\ UNCHANGED <<active_operations, tasks, db, tmp_restore, tmp_backup,
                   chunk_dirs, backup_folders, hist, nreq>>

\* GET /backup?stream=false
backup_db ==
    /\ nreq < MaxOps
    /\ LET operation_id == generate_operation_id IN
       /\ active_operations' = Put(active_operations, operation_id,
                                   Entry("backup", "in_progress", 0))
       /\ tasks' = Append(tasks, Thread("backup", operation_id))
       /\ hist' = Put(hist, operation_id, History(nreq + 1))
    /\ nreq' = nreq + 1
    /\ UNCHANGED varsNotOps
    /\ UNCHANGED <<now, db, tmp_restore, tmp_backup, chunk_dirs, backup_folders>>

\* POST /restore (chunk=false) with a .zip file; saved tells whether file.save
\* wrote the upload or raised
restore_full(bytes, saved) ==
    /\ nreq < MaxOps
    /\ LET operation_id == generate_operation_id IN
       /\ active_operations' = Put(active_operations, operation_id,
                                   Entry("restore", "in_progress", 0))
       /\ hist' = Put(hist, operation_id,
                      [History(nreq + 1) EXCEPT !.starts = IF saved THEN 1 ELSE 0])
       /\ IF saved
          THEN /\ tmp_restore' = Put(tmp_restore, operation_id, bytes)
               /\ tasks' = Append(tasks, Thread("restore", operation_id))
          ELSE \* the exception is answered with 500; the entry stays as created
               /\ UNCHANGED <<tmp_restore, tasks>>
    /\ nreq' = nreq + 1
    /\ UNCHANGED varsNotOps
    /\ UNCHANGED <<now, db, tmp_backup, chunk_dirs, backup_folders>>

\* POST /restore?chunk=true without operation_id; total is X-Total-Chunks
restore_chunk_init(total) ==
    /\ nreq < MaxOps
    /\ LET operation_id == generate_operation_id IN
       /\ chunk_dirs' = IF operation_id \in DOMAIN chunk_dirs
                        THEN chunk_dirs
                        ELSE Put(chunk_dirs, operation_id, <<>>)
       /\ active_operations' = Put(active_operations, operation_id,
                                   Entry("restore_chunked", "receiving_chunks", total))
       /\ hist' = Put(hist, operation_id, History(nreq + 1))
    /\ nreq' = nreq + 1
    /\ UNCHANGED varsNotOps
    /\ UNCHANGED <<now, tasks, db, tmp_restore, tmp_backup, backup_folders>>

\* for i in range(total_chunks): outfile.write(chunk_i): the chunks in index order
RECURSIVE JoinChunks(_, _)
JoinChunks(files, total) ==
    IF total <= 0 THEN <<>>
    ELSE JoinChunks(files, total - 1) \o files[total - 1]

\* the chunks written before open() of a missing chunk raises
RECURSIVE JoinedBeforeMissing(_, _, _)
JoinedBeforeMissing(files, i, total) ==
    IF i >= total \/ i \notin DOMAIN files THEN <<>>
    ELSE files[i] \o JoinedBeforeMissing(files, i + 1, total)

\* mutant: the comparison off by one
AllChunksReceived_Strict(received, total) == received > total

\* if op_info['chunks_received'] >= op_info['total_chunks']
AllChunksReceived(received, total) == received >= total

\* POST /restore?chunk=true&operation_id=id&chunk_number=n with a chunk file.
\* Requests that change nothing are left out: an unknown id (400), an entry
\* without chunk_dir (KeyError, 500), a chunk directory already removed
\* (chunk.save raises, 500).
restore_chunk_upload(operation_id, n, chunk) ==
    /\ operation_id \in DOMAIN active_operations
    /\ active_operations[operation_id].type = "restore_chunked"
    /\ operation_id \in DOMAIN chunk_dirs
    /\ active_operations[operation_id].chunks_received < MaxChunks
    /\ LET op_info == active_operations[operation_id]
           files == Put(chunk_dirs[operation_id], n, chunk)
           received == op_info.chunks_received + 1
           total == op_info.total_chunks
           h == [hist[operation_id] EXCEPT !.sent = Put(@, n, chunk)]
       IN
       IF AllChunksReceived(received, total)
       THEN IF \A i \in 0..(total - 1) : i \in DOMAIN files
            THEN \* combine, mark processing, start the thread, drop the chunks
                 /\ tmp_restore' = Put(tmp_restore, operation_id,
                                       JoinChunks(files, total))
                 /\ active_operations' =
                        [active_operations EXCEPT
                            ![operation_id].chunks_received = received,
                            ![operation_id].status = "processing"]
                 /\ tasks' = Append(tasks, Thread("restore", operation_id))
                 /\ chunk_dirs' = Drop(chunk_dirs, operation_id)
                 /\ hist' = [hist EXCEPT ![operation_id] =
                                [h EXCEPT !.joined = JoinChunks(files, total),
                                          !.concats = @ + 1,
                                          !.starts = @ + 1]]
            ELSE \* open(chunk_i) raises on the first missing index: 500
                 /\ tmp_restore' = Put(tmp_restore, operation_id,
                                       JoinedBeforeMissing(files, 0, total))
                 /\ active_operations' =
                        [active_operations EXCEPT
                            ![operation_id].chunks_received = received]
                 /\ chunk_dirs' = [chunk_dirs EXCEPT ![operation_id] = files]
                 /\ hist' = [hist EXCEPT ![operation_id] = h]
                 /\ UNCHANGED tasks
       ELSE /\ active_operations' =
                   [active_operations EXCEPT
                       ![operation_id].chunks_received = received]
            /\ chunk_dirs' = [chunk_dirs EXCEPT ![operation_id] = files]
            /\ hist' = [hist EXCEPT ![operation_id] = h]
            /\ UNCHANGED <<tasks, tmp_restore>>
    /\ UNCHANGED varsNotOps
    /\ UNCHANGED <<now, db, tmp_backup, backup_folders, nreq>>

\* ------------------------------------------------------------ background threads
Running(t) == t \in 1..Len(tasks) /\ tasks[t].pc # "done"

Goto(t, pc) == [tasks EXCEPT ![t].pc = pc]

\* create_backup_archive: the zip of the walk is written, or writing it raises
backup_zip(t, written) ==
    /\ Running(t) /\ tasks[t].fn = "backup" /\ tasks[t].pc = "zip"
    /\ IF written
       THEN /\ tmp_backup' = Put(tmp_backup, tasks[t].op, ZipOf(db))
            /\ tasks' = [tasks EXCEPT ![t].pc = "status", ![t].T = db]
       ELSE /\ tmp_backup' = Put(tmp_backup, tasks[t].op, <<>>)
            /\ tasks' = Goto(t, "except")
    /\ UNCHANGED varsNotOps
    /\ UNCHANGED <<now, active_operations, db, tmp_restore, chunk_dirs,
                   backup_folders, hist, nreq>>

\* active_operations[operation_id]['status'] = 'completed'
backup_status(t) ==
    /\ Running(t) /\ tasks[t].fn = "backup" /\ tasks[t].pc = "status"
    /\ active_operations' = SetStatus(tasks[t].op, "completed")
    /\ tasks' = Goto(t, "path")
    /\ UNCHANGED varsNotOps
    /\ UNCHANGED <<now, db, tmp_restore, tmp_backup, chunk_dirs,
                   backup_folders, hist, nreq>>

\* active_operations[operation_id]['file_path'] = backup_path
backup_file_path(t) ==
    /\ Running(t) /\ tasks[t].fn = "backup" /\ tasks[t].pc = "path"
    /\ active_operations' = [active_operations EXCEPT ![tasks[t].op].file_path = TRUE]
    /\ tasks' = Goto(t, "done")
    /\ UNCHANGED varsNotOps
    /\ UNCHANGED <<now, db, tmp_restore, tmp_backup, chunk_dirs,
                   backup_folders, hist, nreq>>

\* operation_status with download=true: the archive of a completed backup whose
\* file exists; op_info['file_path'] of an entry without the key raises KeyError,
\* which is answered 500; else the status
DownloadAnswer(operation_id) ==
    IF operation_id \notin DOMAIN active_operations THEN "not_found"
    ELSE LET op_info == active_operations[operation_id] IN
         IF op_info.type = "backup" /\ op_info.status = "completed"
         THEN IF op_info.file_path = FALSE THEN "error"
              ELSE IF operation_id \in DOMAIN tmp_backup THEN "archive"
              ELSE "status"
         ELSE "status"

\* except: status 'failed' and the error text
MarkFailed(id) ==
    [active_operations EXCEPT ![id].status = "failed", ![id].error = TRUE]

backup_except(t) ==
    /\ Running(t) /\ tasks[t].fn = "backup" /\ tasks[t].pc = "except"
    /\ active_operations' = MarkFailed(tasks[t].op)
    /\ tasks' = Goto(t, "done")
    /\ UNCHANGED varsNotOps
    /\ UNCHANGED <<now, db, tmp_restore, tmp_backup, chunk_dirs,
                   backup_folders, hist, nreq>>

\* process_restore_archive: shutil.copytree(DB_FOLDER, backup_folder), after a
\* stale backup_folder was removed; copied is what the copy wrote, all of the tree
\* or, when copying raised, a part of it
restore_copy(t, copied) ==
    /\ Running(t) /\ tasks[t].fn = "restore" /\ tasks[t].pc = "copy"
    /\ copied \in SubTrees(db)
    /\ backup_folders' = Put(backup_folders, tasks[t].op, copied)
    /\ tasks' = IF copied = db
                THEN [tasks EXCEPT ![t].pc = "empty", ![t].T = db]
                ELSE [tasks EXCEPT ![t].pc = "except", ![t].T = db,
                                   ![t].raised = "copy"]
    /\ UNCHANGED varsNotOps
    /\ UNCHANGED <<now, active_operations, db, tmp_restore, tmp_backup,
                   chunk_dirs, hist, nreq>>

\* mutant: the live tree is not emptied
restore_empty_Keep(t) ==
    /\ Running(t) /\ tasks[t].fn = "restore" /\ tasks[t].pc = "empty"
    /\ tasks' = Goto(t, "open")
    /\ UNCHANGED varsNotOps
    /\ UNCHANGED <<now, active_operations, db, tmp_restore, tmp_backup, chunk_dirs,
                   backup_folders, hist, nreq>>

\* os.remove of every file of the walk; the directories stay
restore_empty(t) ==
    /\ Running(t) /\ tasks[t].fn = "restore" /\ tasks[t].pc = "empty"
    /\ db' = EmptyTree
    /\ tasks' = Goto(t, "open")
    /\ UNCHANGED varsNotOps
    /\ UNCHANGED <<now, active_operations, tmp_restore, tmp_backup, chunk_dirs,
                   backup_folders, hist, nreq>>

\* zipfile.ZipFile(zip_path, 'r'): raises for a missing file or a file that is
\* no zip
restore_open(t) ==
    /\ Running(t) /\ tasks[t].fn = "restore" /\ tasks[t].pc = "open"
    /\ LET id == tasks[t].op IN
       tasks' = IF id \in DOMAIN tmp_restore /\ IsZip(tmp_restore[id])
                THEN [tasks EXCEPT ![t].pc = "extract",
                                   ![t].z = Members(tmp_restore[id]),
                                   ![t].i = 1]
                ELSE [tasks EXCEPT ![t].pc = "except", ![t].raised = "open"]
    /\ UNCHANGED varsNotOps
    /\ UNCHANGED <<now, active_operations, db, tmp_restore, tmp_backup,
                   chunk_dirs, backup_folders, hist, nreq>>

\* one round of: for member in zip_ref.namelist(): extract it if it starts with
\* 'db/'; a member that is damaged raises
restore_extract(t) ==
    /\ Running(t) /\ tasks[t].fn = "restore" /\ tasks[t].pc = "extract"
    /\ LET i == tasks[t].i
           z == tasks[t].z
       IN
       IF i > Len(z)
       THEN /\ tasks' = Goto(t, "status")
            /\ UNCHANGED db
       ELSE IF z[i].k # "file"
       THEN /\ tasks' = [tasks EXCEPT ![t].pc = "except", ![t].raised = "extract"]
            /\ UNCHANGED db
       ELSE /\ tasks' = [tasks EXCEPT ![t].i = i + 1]
            /\ db' = IF StartsWithDb(z[i].path)
                     THEN Put(db, z[i].path, z[i].data)
                     ELSE db
    /\ UNCHANGED varsNotOps
    /\ UNCHANGED <<now, active_operations, tmp_restore, tmp_backup, chunk_dirs,
                   backup_folders, hist, nreq>>

\* active_operations[operation_id]['status'] = 'completed'
restore_status(t) ==
    /\ Running(t) /\ tasks[t].fn = "restore" /\ tasks[t].pc = "status"
    /\ active_operations' = SetStatus(tasks[t].op, "completed")
    /\ tasks' = Goto(t, "rmzip")
    /\ UNCHANGED varsNotOps
    /\ UNCHANGED <<now, db, tmp_restore, tmp_backup, chunk_dirs,
                   backup_folders, hist, nreq>>

\* if os.path.exists(zip_path): os.remove(zip_path)
restore_rmzip(t) ==
    /\ Running(t) /\ tasks[t].fn = "restore" /\ tasks[t].pc = "rmzip"
    /\ tmp_restore' = Drop(tmp_restore, tasks[t].op)
    /\ tasks' = Goto(t, "done")
    /\ UNCHANGED varsNotOps
    /\ UNCHANGED <<now, active_operations, db, tmp_backup, chunk_dirs,
                   backup_folders, hist, nreq>>

\* except: status 'failed' and the error text
restore_except(t) ==
    /\ Running(t) /\ tasks[t].fn = "restore" /\ tasks[t].pc = "except"
    /\ active_operations' = MarkFailed(tasks[t].op)
    /\ tasks' = Goto(t, "rollback")
    /\ UNCHANGED varsNotOps
    /\ UNCHANGED <<now, db, tmp_restore, tmp_backup, chunk_dirs,
                   backup_folders, hist, nreq>>

\* mutant: the live tree is removed and nothing is copied back
RestoredFromBackup_NoCopy(backup) == EmptyTree

\* the tree after shutil.rmtree(DB_FOLDER); shutil.copytree(backup_folder, DB_FOLDER)
RestoredFromBackup(backup) == backup

\* the inner try: with a backup folder, the live tree is removed and copied back
\* from it; restored is what the copy back wrote, all of the backup or, when it
\* raised, a part of it
restore_rollback(t, restored) ==
    /\ Running(t) /\ tasks[t].fn = "restore" /\ tasks[t].pc = "rollback"
    /\ LET id == tasks[t].op IN
       IF id \in DOMAIN backup_folders
       THEN /\ restored \in SubTrees(RestoredFromBackup(backup_folders[id]))
            /\ db' = restored
            /\ tasks' = [tasks EXCEPT
                            ![t].pc = "done",
                            ![t].rollback =
                                IF restored = RestoredFromBackup(backup_folders[id])
                                THEN "ok" ELSE "failed"]
       ELSE /\ restored = EmptyTree
            /\ UNCHANGED db
            /\ tasks' = [tasks EXCEPT ![t].pc = "done", ![t].rollback = "skipped"]
    /\ UNCHANGED varsNotOps
    /\ UNCHANGED <<now, active_operations, tmp_restore, tmp_backup, chunk_dirs,
                   backup_folders, hist, nreq>>

\* handle_file_operation('upload'): file.save(file_path) of an accepted upload
upload_saved(path, content) ==
    /\ db' = Put(db, path, content)
    /\ UNCHANGED varsNotOps
    /\ UNCHANGED <<now, active_operations, tasks, tmp_restore, tmp_backup,
                   chunk_dirs, backup_folders, hist, nreq>>

\* handle_file_operation('delete'): os.remove(file_path) of a stored file
delete_removed(path) ==
    /\ path \in DOMAIN db
    /\ db' = Drop(db, path)
    /\ UNCHANGED varsNotOps
    /\ UNCHANGED <<now, active_operations, tasks, tmp_restore, tmp_backup,
                   chunk_dirs, backup_folders, hist, nreq>>

\* ------------------------------------------------------------ upload handlers
Names == {"a", "b"}

Kinds == {"dir", "file"}

IsUnder(p, d) == Len(p) > Len(d) /\ SubSeq(p, 1, Len(d)) = d

\* os.listdir(d)
Listdir(tree, d) == {p \in DOMAIN tree : Len(p) = Len(d) + 1 /\ IsUnder(p, d)}

\* os.path.isdir(p)
IsDir(tree, p) == p \in DOMAIN tree /\ tree[p] = "dir"

FilesOf(tree) == {p \in DOMAIN tree : tree[p] = "file"}

\* the entries one more member can add to a tree: a name not yet used, at the
\* top or in one of its directories
Addable(tree) ==
    {d \o <<n>> : d \in {<<>>} \cup {q \in DOMAIN tree : tree[q] = "dir"},
                  n \in Names} \ DOMAIN tree

Grow(tree) == {Put(tree, p, k) : p \in Addable(tree), k \in Kinds}

RECURSIVE TreesOfSize(_)
TreesOfSize(n) ==
    IF n = 0 THEN {EmptyTree} ELSE UNION {Grow(tree) : tree \in TreesOfSize(n - 1)}

\* the uploaded archives and folders: every tree of up to MaxEntries entries
ArchiveTrees == UNION {TreesOfSize(n) : n \in 0..MaxEntries}

\* the members an extraction can write next: a member's directory comes before it
NextMembers(archive, extracted) ==
    {p \in DOMAIN archive \ DOMAIN extracted :
        Len(p) = 1 \/ SubSeq(p, 1, Len(p) - 1) \in DOMAIN extracted}

\* while not found_target: one entry that is a directory is entered
\* mutant: the descent stops at the top-level directory
Descend_Shallow(tree, current_dir) == current_dir

RECURSIVE Descend(_, _)
Descend(tree, current_dir) ==
    LET contents == Listdir(tree, current_dir) IN
    IF Cardinality(contents) = 1 /\ IsDir(tree, CHOOSE c \in contents : TRUE)
    THEN Descend(tree, CHOOSE c \in contents : TRUE)
    ELSE current_dir

\* source_folders: the top-level directories of temp_extract_dir
SourceFolders(tree) == {p \in Listdir(tree, <<>>) : IsDir(tree, p)}

\* the folder whose contents are moved: with exactly one top-level directory the
\* end of the descent from it, else temp_extract_dir itself
FindTargetFolder(tree) ==
    IF Cardinality(SourceFolders(tree)) = 1
    THEN Descend(tree, CHOOSE p \in SourceFolders(tree) : TRUE)
    ELSE <<>>

\* shutil.copytree / shutil.copy2 of src, an entry of root, to folder_path/<name>
CopyOf(tree, root, src) ==
    LET moved == {p \in DOMAIN tree : p = src \/ IsUnder(p, src)} IN
    [q \in {SubSeq(p, Len(root) + 1, Len(p)) : p \in moved} |-> tree[root \o q]]

\* the directories os.makedirs creates above a file
ParentsOf(p) == {SubSeq(p, 1, k) : k \in 1..(Len(p) - 1)}

Outcomes == {"ok", "non200", "unreachable"}

\* requests.put(...) raised requests.RequestException, which every handler catches
UpsertRaises(outcome) == outcome = "unreachable"

\* mutant: the exception is not caught by the handler
UpsertCaught_Not(outcome) == FALSE

UpsertCaught(outcome) == TRUE

\* no upload is in progress; dir is the content of the item's type directory
InitIngestState(dir) ==
    /\ u_kind = "none"
    /\ u_pc = "idle"
    /\ u_archive = EmptyTree
    /\ u_failed = "none"
    /\ u_root = <<>>
    /\ u_files = <<>>
    /\ staging_exists = FALSE
    /\ staging = EmptyTree
    /\ dest = EmptyTree
    /\ type_dir = dir
    /\ u_saved = <<>>
    /\ binding = <<>>
    /\ resp = 0
    /\ u_count = 0

\* upload_folder_direct up to os.makedirs(temp_extract_dir): the item is known and
\* has a category and a type; folder_path and temp_extract_dir are created
tar_begin(archive) ==
    /\ u_pc = "idle"
    /\ u_kind' = "tar"
    /\ u_archive' = archive
    /\ dest' = EmptyTree
    /\ staging_exists' = TRUE
    /\ staging' = EmptyTree
    /\ u_pc' = "open"
    /\ UNCHANGED <<u_failed, u_root, u_files, type_dir, u_saved, binding, resp>>
    /\ UNCHANGED u_count
    /\ UNCHANGED varsNotIngest

\* tarfile.open(fileobj=tar_stream, mode='r|*'): raises if the body is no tar stream
tar_open(valid) ==
    /\ u_kind = "tar" /\ u_pc = "open"
    /\ IF valid
       THEN u_pc' = "extract" /\ UNCHANGED u_failed
       ELSE u_pc' = "except" /\ u_failed' = "open"
    /\ UNCHANGED <<u_kind, u_archive, u_root, u_files, staging_exists, staging,
                   dest, type_dir, u_saved, binding, resp>>
    /\ UNCHANGED u_count
    /\ UNCHANGED varsNotIngest

\* tar.extractall(path=temp_extract_dir), one member
tar_extract(p) ==
    /\ u_kind = "tar" /\ u_pc = "extract"
    /\ p \in NextMembers(u_archive, staging)
    /\ staging' = Put(staging, p, u_archive[p])
    /\ UNCHANGED <<u_kind, u_pc, u_archive, u_failed, u_root, u_files,
                   staging_exists, dest, type_dir, u_saved, binding, resp>>
    /\ UNCHANGED u_count
    /\ UNCHANGED varsNotIngest

\* tar.extractall raises: the stream is damaged from here on
tar_extract_raise ==
    /\ u_kind = "tar" /\ u_pc = "extract"
    /\ u_failed' = "extract"
    /\ u_pc' = "except"
    /\ UNCHANGED <<u_kind, u_archive, u_root, u_files, staging_exists, staging,
                   dest, type_dir, u_saved, binding, resp>>
    /\ UNCHANGED u_count
    /\ UNCHANGED varsNotIngest

\* after the extraction: the listing of temp_extract_dir and the descent, which
\* find current_dir, or raise
tar_discover(found) ==
    /\ u_kind = "tar" /\ u_pc = "extract"
    /\ DOMAIN staging = DOMAIN u_archive
    /\ IF found
       THEN /\ u_root' = FindTargetFolder(staging)
            /\ u_pc' = "copy"
            /\ UNCHANGED u_failed
       ELSE /\ u_failed' = "discover"
            /\ u_pc' = "except"
            /\ UNCHANGED u_root
    /\ UNCHANGED <<u_kind, u_archive, u_files, staging_exists, staging,
                   dest, type_dir, u_saved, binding, resp>>
    /\ UNCHANGED u_count
    /\ UNCHANGED varsNotIngest

\* for item in os.listdir(current_dir): copytree or copy2 to folder_path/item
tar_copy(src) ==
    /\ u_kind = "tar" /\ u_pc = "copy"
    /\ src \in Listdir(staging, u_root)
    /\ SubSeq(src, Len(u_root) + 1, Len(src)) \notin DOMAIN dest
    /\ dest' = CopyOf(staging, u_root, src) @@ dest
    /\ UNCHANGED <<u_kind, u_pc, u_archive, u_failed, u_root, u_files,
                   staging_exists, staging, type_dir, u_saved, binding, resp>>
    /\ UNCHANGED u_count
    /\ UNCHANGED varsNotIngest

\* a copy raises
tar_copy_raise ==
    /\ u_kind = "tar" /\ u_pc = "copy"
    /\ u_failed' = "copy"
    /\ u_pc' = "except"
    /\ UNCHANGED <<u_kind, u_archive, u_root, u_files, staging_exists, staging,
                   dest, type_dir, u_saved, binding, resp>>
    /\ UNCHANGED u_count
    /\ UNCHANGED varsNotIngest

\* mutant: the cleanup of the except branch is missing
StagingAfterExcept_Kept(exists) == exists

\* except: if os.path.exists(temp_extract_dir): shutil.rmtree(temp_extract_dir)
StagingAfterExcept(exists) == FALSE

\* everything is copied: shutil.rmtree(temp_extract_dir)
tar_cleanup ==
    /\ u_kind = "tar" /\ u_pc = "copy"
    /\ \A src \in Listdir(staging, u_root) :
          SubSeq(src, Len(u_root) + 1, Len(src)) \in DOMAIN dest
    /\ staging_exists' = FALSE
    /\ staging' = EmptyTree
    /\ u_pc' = "bind"
    /\ UNCHANGED <<u_kind, u_archive, u_failed, u_root, u_files, dest,
                   type_dir, u_saved, binding, resp>>
    /\ UNCHANGED u_count
    /\ UNCHANGED varsNotIngest

\* the except branch of upload_folder_direct: cleanup, then 400
tar_except ==
    /\ u_kind = "tar" /\ u_pc = "except"
    /\ staging_exists' = StagingAfterExcept(staging_exists)
    /\ staging' = IF staging_exists' THEN staging ELSE EmptyTree
    /\ resp' = 400
    /\ u_pc' = "done"
    /\ UNCHANGED <<u_kind, u_archive, u_failed, u_root, u_files, dest,
                   type_dir, u_saved, binding>>
    /\ UNCHANGED u_count
    /\ UNCHANGED varsNotIngest

\* process_folder_upload up to ensure_directory_exists(folder_path), for a ZIP
\* upload ('zip_file') or a directory upload ('folder_files', a non-empty list)
folder_begin(kind, archive) ==
    /\ u_pc = "idle"
    /\ kind \in {"zip", "multi"}
    /\ kind = "multi" => FilesOf(archive) # {}
    /\ u_kind' = kind
    /\ u_archive' = archive
    /\ dest' = EmptyTree
    /\ u_pc' = IF kind = "zip" THEN "open" ELSE "save"
    /\ UNCHANGED <<u_failed, u_root, u_files, staging_exists, staging,
                   type_dir, u_saved, binding, resp>>
    /\ UNCHANGED u_count
    /\ UNCHANGED varsNotIngest

\* zipfile.ZipFile(zip_file): raises if the upload is no ZIP file; nothing in
\* process_folder_upload or upload_folder catches it
zip_open(valid) ==
    /\ u_kind = "zip" /\ u_pc = "open"
    /\ IF valid
       THEN u_pc' = "extract" /\ UNCHANGED <<u_failed, resp>>
       ELSE u_pc' = "done" /\ u_failed' = "open" /\ resp' = 500
    /\ UNCHANGED <<u_kind, u_archive, u_root, u_files, staging_exists, staging,
                   dest, type_dir, u_saved, binding>>
    /\ UNCHANGED u_count
    /\ UNCHANGED varsNotIngest

\* zip_obj.extractall(destination_path), one member, written into folder_path
zip_extract(p) ==
    /\ u_kind = "zip" /\ u_pc = "extract"
    /\ p \in NextMembers(u_archive, dest)
    /\ dest' = Put(dest, p, u_archive[p])
    /\ UNCHANGED <<u_kind, u_pc, u_archive, u_failed, u_root, u_files,
                   staging_exists, staging, type_dir, u_saved, binding, resp>>
    /\ UNCHANGED u_count
    /\ UNCHANGED varsNotIngest

\* zip_obj.extractall raises at a damaged member
zip_extract_raise ==
    /\ u_kind = "zip" /\ u_pc = "extract"
    /\ u_failed' = "extract"
    /\ resp' = 500
    /\ u_pc' = "done"
    /\ UNCHANGED <<u_kind, u_archive, u_root, u_files, staging_exists, staging,
                   dest, type_dir, u_saved, binding>>
    /\ UNCHANGED u_count
    /\ UNCHANGED varsNotIngest

\* every member is extracted: os.walk(destination_path) lists the files
zip_extracted ==
    /\ u_kind = "zip" /\ u_pc = "extract"
    /\ DOMAIN dest = DOMAIN u_archive
    /\ u_pc' = "bind"
    /\ UNCHANGED <<u_kind, u_archive, u_failed, u_root, u_files, staging_exists,
                   staging, dest, type_dir, u_saved, binding, resp>>
    /\ UNCHANGED u_count
    /\ UNCHANGED varsNotIngest

\* process_folder_files, one file: its directories are created, the file is saved
multi_save(p) ==
    /\ u_kind = "multi" /\ u_pc = "save"
    /\ p \in FilesOf(u_archive) \ DOMAIN dest
    /\ dest' = (p :> "file") @@ [d \in ParentsOf(p) |-> "dir"] @@ dest
    /\ UNCHANGED <<u_kind, u_pc, u_archive, u_failed, u_root, u_files,
                   staging_exists, staging, type_dir, u_saved, binding, resp>>
    /\ UNCHANGED u_count
    /\ UNCHANGED varsNotIngest

\* file_obj.save raises
multi_save_raise ==
    /\ u_kind = "multi" /\ u_pc = "save"
    /\ FilesOf(u_archive) \ DOMAIN dest # {}
    /\ u_failed' = "save"
    /\ resp' = 500
    /\ u_pc' = "done"
    /\ UNCHANGED <<u_kind, u_archive, u_root, u_files, staging_exists, staging,
                   dest, type_dir, u_saved, binding>>
    /\ UNCHANGED u_count
    /\ UNCHANGED varsNotIngest

\* process_folder_files returns uploaded_files
multi_saved ==
    /\ u_kind = "multi" /\ u_pc = "save"
    /\ FilesOf(u_archive) \subseteq DOMAIN dest
    /\ u_pc' = "bind"
    /\ UNCHANGED <<u_kind, u_archive, u_failed, u_root, u_files, staging_exists,
                   staging, dest, type_dir, u_saved, binding, resp>>
    /\ UNCHANGED u_count
    /\ UNCHANGED varsNotIngest

\* the StaticBinding upsert of one file of the folder: update_static_resource for a
\* ZIP or directory upload, the try block of upload_folder_direct for a tar upload
bind_file(f, outcome) ==
    /\ u_kind \in {"zip", "multi", "tar"} /\ u_pc = "bind"
    /\ f \in FilesOf(dest) \ DOMAIN u_files
    /\ IF UpsertRaises(outcome) /\ ~UpsertCaught(outcome)
       THEN /\ u_pc' = IF u_kind = "tar" THEN "except" ELSE "done"
            /\ resp' = IF u_kind = "tar" THEN resp ELSE 500
            /\ UNCHANGED <<u_files, binding>>
       ELSE /\ u_files' = Put(u_files, f, outcome)
            /\ binding' = IF outcome = "ok" THEN f ELSE binding
            /\ UNCHANGED <<u_pc, resp>>
    /\ UNCHANGED <<u_kind, u_archive, u_failed, u_root, staging_exists, staging,
                   dest, type_dir, u_saved>>
    /\ UNCHANGED u_count
    /\ UNCHANGED varsNotIngest

\* the upsert loop is over: the success response
folder_done ==
    /\ u_kind \in {"zip", "multi", "tar"} /\ u_pc = "bind"
    /\ DOMAIN u_files = FilesOf(dest)
    /\ resp' = 200
    /\ u_pc' = "done"
    /\ UNCHANGED <<u_kind, u_archive, u_failed, u_root, u_files, staging_exists,
                   staging, dest, type_dir, u_saved, binding>>
    /\ UNCHANGED u_count
    /\ UNCHANGED varsNotIngest

\* the names of one type directory: the item's sanitized name, alone or with a
\* numeric suffix, and another name
ItemName == "item"

SuffixStr == <<"_1", "_2", "_3", "_4", "_5", "_6">>

UploadNames == {<<"up">>, <<ItemName>>, <<ItemName, SuffixStr[1]>>}

TypeDirs == UNION {[S -> {1}] : S \in SUBSET {<<ItemName>>, <<ItemName, SuffixStr[1]>>}}

\* mutant: the name is taken without looking whether it exists
NewFilePath_Unchecked(dir, counter) == <<ItemName>>

\* while os.path.exists(new_file_path): the next numeric suffix
RECURSIVE NewFilePath(_, _)
NewFilePath(dir, counter) ==
    LET new_file_path == IF counter = 0 THEN <<ItemName>>
                         ELSE <<ItemName, SuffixStr[counter]>> IN
    IF new_file_path \in DOMAIN dir THEN NewFilePath(dir, counter + 1)
    ELSE new_file_path

\* the content of the file of the next upload: 1 is the content of the files
\* stored before the first one
UploadedContent(count) == count + 2

\* upload_file up to file.save(original_file_path): the file is stored under
\* its own name, over a file of that name
single_save(filename) ==
    /\ u_pc = "idle"
    /\ filename \in UploadNames
    /\ u_kind' = "single"
    /\ type_dir' = Put(type_dir, filename, UploadedContent(u_count))
    /\ u_saved' = filename
    /\ u_pc' = "rename"
    /\ UNCHANGED <<u_archive, u_failed, u_root, u_files, staging_exists, staging,
                   dest, binding, resp>>
    /\ UNCHANGED u_count
    /\ UNCHANGED varsNotIngest

\* rename_file_based_on_item_details: os.rename to the first free name, or OSError,
\* after which the file keeps its name
single_rename(renamed) ==
    /\ u_kind = "single" /\ u_pc = "rename"
    /\ LET new_file_path == NewFilePath(type_dir, 0) IN
       IF renamed
       THEN /\ type_dir' = Put(Drop(type_dir, u_saved), new_file_path, type_dir[u_saved])
            /\ u_saved' = new_file_path
       ELSE UNCHANGED <<type_dir, u_saved>>
    /\ u_pc' = "bind"
    /\ UNCHANGED <<u_kind, u_archive, u_failed, u_root, u_files, staging_exists,
                   staging, dest, binding, resp>>
    /\ UNCHANGED u_count
    /\ UNCHANGED varsNotIngest

\* the upsert of upload_file and its response
single_bind(outcome) ==
    /\ u_kind = "single" /\ u_pc = "bind"
    /\ IF UpsertRaises(outcome) /\ ~UpsertCaught(outcome)
       THEN /\ resp' = 500
            /\ UNCHANGED <<u_files, binding>>
       ELSE /\ u_files' = Put(u_files, u_saved, outcome)
            /\ binding' = IF outcome = "ok" THEN u_saved ELSE binding
            /\ resp' = 200
    /\ u_pc' = "done"
    /\ UNCHANGED <<u_kind, u_archive, u_failed, u_root, staging_exists, staging,
                   dest, type_dir, u_saved>>
    /\ UNCHANGED u_count
    /\ UNCHANGED varsNotIngest

\* upload_file has answered: the next request can be served
upload_file_return ==
    /\ u_kind = "single" /\ u_pc = "done"
    /\ u_count < MaxUploads
    /\ u_count' = u_count + 1
    /\ u_kind' = "none"
    /\ u_pc' = "idle"
    /\ u_saved' = <<>>
    /\ u_files' = <<>>
    /\ resp' = 0
    /\ UNCHANGED <<u_archive, u_failed, u_root, staging_exists, staging, dest,
                   type_dir, binding>>
    /\ UNCHANGED varsNotIngest

\* ------------------------------------------------------------ predict_item_id
\* Strings are sequences of pieces: a directory name, the separator, the literal
\* "item", an underscore, a digit, an extension.
SEP == "/"

FILE_VIEW_PREPATH == <<"view", SEP>>

\* return None
NoItem == -1

Digits == {"7"}

DigitVal(c) == IF c = "7" THEN 7 ELSE 0

IsSeparatorChar(c) == c = "_"

\* s in t
IsSubstring(s, t) ==
    \E i \in 0..(Len(t) - Len(s)) : SubSeq(t, i + 1, i + Len(s)) = s

\* t.startswith(s)
StartsWith(t, s) == Len(t) >= Len(s) /\ SubSeq(t, 1, Len(s)) = s

\* resource_path with the prepath stripped if it starts with it
StripPrepath(resource_path) ==
    IF StartsWith(resource_path, FILE_VIEW_PREPATH)
    THEN SubSeq(resource_path, Len(FILE_VIEW_PREPATH) + 1, Len(resource_path))
    ELSE resource_path

\* mutant: the stored path must be the file's path
ResourceMatches_Exact(file_path, resource) ==
    /\ resource.item_path # <<>>
    /\ StripPrepath(resource.item_path) = file_path

\* the test of one static resource: a non-empty item_path that contains file_path
ResourceMatches(file_path, resource) ==
    /\ resource.item_path # <<>>
    /\ IsSubstring(file_path, StripPrepath(resource.item_path))

\* the loop over static_resources.items(): the first resource that matches, 0 if none
RECURSIVE FirstResource(_, _, _)
FirstResource(file_path, static_resources, i) ==
    IF i > Len(static_resources) THEN 0
    ELSE IF ResourceMatches(file_path, static_resources[i]) THEN i
    ELSE FirstResource(file_path, static_resources, i + 1)

\* file_path.split(os.sep)
RECURSIVE Split(_)
Split(str) ==
    IF \A i \in 1..Len(str) : str[i] # SEP THEN <<str>>
    ELSE LET i == CHOOSE k \in 1..Len(str) :
                     str[k] = SEP /\ \A j \in 1..(k - 1) : str[j] # SEP
         IN <<SubSeq(str, 1, i - 1)>> \o Split(SubSeq(str, i + 1, Len(str)))

\* os.path.splitext(file_name)[0]: a last piece that is an extension is dropped,
\* unless the name is that piece alone
IsExt(c) == c = ".pdf"

SplitextBase(file_name) ==
    IF Len(file_name) > 1 /\ IsExt(file_name[Len(file_name)])
    THEN SubSeq(file_name, 1, Len(file_name) - 1)
    ELSE file_name

\* the end of the run of digits that begins at i
RECURSIVE DigitRunEnd(_, _)
DigitRunEnd(b, i) ==
    IF i + 1 <= Len(b) /\ b[i + 1] \in Digits THEN DigitRunEnd(b, i + 1) ELSE i

\* int(match.group(1)) for the digits b[i..j]
RECURSIVE IntOf(_, _, _)
IntOf(b, i, j) == IF j < i THEN 0 ELSE IntOf(b, i, j - 1) * 10 + DigitVal(b[j])

\* where (\d+) begins if r'item[_-]?(\d+)' matches at p, else 0
ItemPatternAt(b, p) ==
    IF b[p] # "item" THEN 0
    ELSE IF p + 2 <= Len(b) /\ IsSeparatorChar(b[p + 1]) /\ b[p + 2] \in Digits THEN p + 2
    ELSE IF p + 1 <= Len(b) /\ b[p + 1] \in Digits THEN p + 1
    ELSE 0

\* whether r'(\d+)[_-]' matches at p
PrefixPatternAt(b, p) ==
    /\ b[p] \in Digits
    /\ DigitRunEnd(b, p) + 1 <= Len(b)
    /\ IsSeparatorChar(b[DigitRunEnd(b, p) + 1])

\* re.search(pattern, filename_base) for the three id_patterns: the number of the
\* leftmost match, -1 without a match
SearchId(pattern, b) ==
    IF pattern = 1 THEN
        IF \E p \in 1..Len(b) : ItemPatternAt(b, p) # 0
        THEN LET p == CHOOSE q \in 1..Len(b) :
                         ItemPatternAt(b, q) # 0
                         /\ \A r \in 1..(q - 1) : ItemPatternAt(b, r) = 0
                 g == ItemPatternAt(b, p)
             IN IntOf(b, g, DigitRunEnd(b, g))
        ELSE -1
    ELSE IF pattern = 2 THEN
        IF \E p \in 1..Len(b) : PrefixPatternAt(b, p)
        THEN LET p == CHOOSE q \in 1..Len(b) :
                         PrefixPatternAt(b, q)
                         /\ \A r \in 1..(q - 1) : ~PrefixPatternAt(b, r)
             IN IntOf(b, p, DigitRunEnd(b, p))
        ELSE -1
    ELSE
        IF Len(b) >= 1 /\ \A i \in 1..Len(b) : b[i] \in Digits
        THEN IntOf(b, 1, Len(b))
        ELSE -1

\* the boost of the for loop over id_patterns: 0.5, in tenths, for each pattern
\* whose number is the item's id
IdBoost(item_id, filename_base) ==
    5 * Cardinality({pattern \in 1..3 : SearchId(pattern, filename_base) = item_id})

\* the score of a candidate, in tenths: the SequenceMatcher ratio of the file name
\* and the item's name, the id boost, and 0.3 if the details hold a clue
Similarity(item, file_name) ==
    item.similarity + IdBoost(item.item_id, SplitextBase(file_name))
    + (IF item.details_match THEN 3 ELSE 0)

\* mutant: the type is not compared
IsCandidate_CategoryOnly(item, category, file_type) == item.category = category

\* item.get('category') == category and item.get('type') == file_type
IsCandidate(item, category, file_type) ==
    item.category = category /\ item.type = file_type

\* the loop over items_dict.items(): the candidates of the category and type
RECURSIVE Candidates(_, _, _, _)
Candidates(items, category, file_type, file_name) ==
    IF items = <<>> THEN <<>>
    ELSE LET item == Head(items)
             rest == Candidates(Tail(items), category, file_type, file_name)
         IN IF IsCandidate(item, category, file_type)
            THEN <<[item_id |-> item.item_id, similarity |-> Similarity(item, file_name)]>>
                 \o rest
            ELSE rest

\* mutant: a candidate also goes before the candidates it ties with
GoesBefore_Ties(a, b) == a.similarity >= b.similarity

\* list.sort(key=..., reverse=True) is stable: a goes before b, which came
\* earlier, only with a greater key
GoesBefore(a, b) == a.similarity > b.similarity

\* c put into the sorted list
RECURSIVE InsertSorted(_, _)
InsertSorted(sorted, c) ==
    IF sorted = <<>> THEN <<c>>
    ELSE IF GoesBefore(c, Head(sorted)) THEN <<c>> \o sorted
    ELSE <<Head(sorted)>> \o InsertSorted(Tail(sorted), c)

\* candidates.sort(key=lambda x: x[1], reverse=True)
RECURSIVE SortCandidates(_, _)
SortCandidates(candidates, n) ==
    IF n = 0 THEN <<>>
    ELSE InsertSorted(SortCandidates(candidates, n - 1), candidates[n])

predict_item_id(file_path, file_name, items_dict, static_resources) ==
    LET hit == FirstResource(file_path, static_resources, 1)
        path_parts == Split(file_path)
    IN
    IF hit # 0 THEN static_resources[hit].item_id
    ELSE IF Len(path_parts) < 2 THEN NoItem
    ELSE LET candidates == Candidates(items_dict, path_parts[1], path_parts[2], file_name)
             sorted == SortCandidates(candidates, Len(candidates))
         IN IF sorted # <<>> THEN sorted[1].item_id ELSE NoItem

\* os.path.basename: the caller passes the last part of the path as file_name
Basename(file_path) == Split(file_path)[Len(Split(file_path))]

InitMatcherIdle ==
    /\ m_pc = "off"
    /\ m_file_path = <<>>
    /\ m_items = <<>>
    /\ m_static = <<>>
    /\ m_result = NoItem

\* the call, as list_all_files and sync_static_resources make it
call_predict_item_id ==
    /\ m_pc = "call"
    /\ m_result' = predict_item_id(m_file_path, Basename(m_file_path), m_items, m_static)
    /\ m_pc' = "done"
    /\ UNCHANGED <<m_file_path, m_items, m_static>>
    /\ UNCHANGED varsNotMatcher

\* ------------------------------------------------------------ sanitize_filename
\* The characters of a name, one of each kind the three substitutions tell apart:
\* an ASCII letter, a digit, the underscore, the dot, the hyphen, the space, the
\* tab, the slash, another ASCII sign, and a letter outside ASCII.
Chars == {"a", "7", "_", ".", "-", " ", "\t", "/", "#", "U+00E9"}

\* the class [\\/*?:"<>|]
IsInvalidChar(c) == c = "/"

\* \w of a str pattern: the letters and digits of Unicode and the underscore
IsWordChar(c) == c \in {"a", "7", "_", "U+00E9"}

\* the class [^\w\-\.]
IsProblematicChar(c) == ~IsWordChar(c) /\ c # "-" /\ c # "."

\* re.sub(r'[\\/*?:"<>|]', '', name)
RemoveInvalid(str) == SelectSeq(str, LAMBDA c : ~IsInvalidChar(c))

\* re.sub(r'[^\w\-\.]', '', sanitized)
RemoveProblematic(str) == SelectSeq(str, LAMBDA c : ~IsProblematicChar(c))

\* str.replace(' ', '_')
ReplaceSpaces(str) == [i \in 1..Len(str) |-> IF str[i] = " " THEN "_" ELSE str[i]]

UNNAMED_FILE == <<"unnamed_file">>

sanitize_filename(name) ==
    LET sanitized == RemoveProblematic(ReplaceSpaces(RemoveInvalid(name)))
    IN IF sanitized = <<>> THEN UNNAMED_FILE ELSE sanitized

InitSanitizeIdle ==
    /\ s_pc = "off"
    /\ s_name = <<>>
    /\ s_result = <<>>

\* the call rename_file_based_on_item_details makes with the item's name
call_sanitize_filename ==
    /\ s_pc = "call"
    /\ s_result' = sanitize_filename(s_name)
    /\ s_pc' = "done"
    /\ UNCHANGED s_name
    /\ UNCHANGED varsNotSanitize

\* ------------------------------------------------------------ paths
\* A path string is its segments, the pieces between slashes, and whether it
\* begins with a slash. A location is the sequence of names from / to a file.
PathStr(abs, segs) == [abs |-> abs, segs |-> segs]

\* the path strings of up to n segments: one that does not begin with a slash
\* has no empty first segment
PathStrs(S, n) ==
    {PathStr(abs, segs) : abs \in BOOLEAN,
                          segs \in {q \in SeqsUpTo(S, n) : q = <<>> \/ q[1] # ""}}
    \cup {PathStr(TRUE, segs) : segs \in SeqsUpTo(S, n)}

\* the working directory of the server, in which the storage root 'db' lies
CWD == <<"srv">>

\* os.path.normpath: empty and '.' segments go, '..' takes the segment before it
\* away unless there is none or it is a '..' too
RECURSIVE NormComps(_, _, _)
NormComps(segs, abs, new_comps) ==
    IF segs = <<>> THEN new_comps
    ELSE LET comp == Head(segs) IN
         IF comp \in {"", "."} THEN NormComps(Tail(segs), abs, new_comps)
         ELSE IF \/ comp # ".."
                 \/ (~abs /\ new_comps = <<>>)
                 \/ (new_comps # <<>> /\ new_comps[Len(new_comps)] = "..")
         THEN NormComps(Tail(segs), abs, Append(new_comps, comp))
         ELSE IF new_comps # <<>>
         THEN NormComps(Tail(segs), abs, SubSeq(new_comps, 1, Len(new_comps) - 1))
         ELSE NormComps(Tail(segs), abs, new_comps)

normpath(path) ==
    LET comps == NormComps(path.segs, path.abs, <<>>) IN
    IF comps = <<>> /\ ~path.abs THEN PathStr(FALSE, <<".">>) ELSE PathStr(path.abs, comps)

\* os.path.join(a, b): b alone if it is absolute
join(a, b) == IF b.abs THEN b ELSE PathStr(a.abs, a.segs \o b.segs)

\* a segment that begins with two dots
BeginsWithDots(seg) == seg \in {"..", "..x"}

\* str.startswith('..')
StartsWithDots(path) == ~path.abs /\ path.segs # <<>> /\ BeginsWithDots(path.segs[1])

\* where the operating system finds a path: from / or the working directory,
\* '..' goes to the parent
RECURSIVE Walk(_, _)
Walk(segs, cur) ==
    IF segs = <<>> THEN cur
    ELSE IF Head(segs) \in {"", "."} THEN Walk(Tail(segs), cur)
    ELSE IF Head(segs) = ".."
    THEN Walk(Tail(segs), IF cur = <<>> THEN cur ELSE SubSeq(cur, 1, Len(cur) - 1))
    ELSE Walk(Tail(segs), Append(cur, Head(segs)))

Locate(path) == Walk(path.segs, IF path.abs THEN <<>> ELSE CWD)

\* ------------------------------------------------------------ serve.py
\* base_dir='db'
base_dir == PathStr(FALSE, <<"db">>)

\* the files and directories of the machine, as locations: a file and a folder
\* with a file below the storage root, a file beside it, a file and a folder
\* below /
ServedFiles == {<<"srv", "db", "x">>, <<"srv", "db", "d", "x">>, <<"srv", "x">>, <<"x">>}

ServedDirs == {<<>>, <<"srv">>, <<"srv", "db">>, <<"srv", "db", "d">>, <<"d">>}

isfile(path) == Locate(path) \in ServedFiles

isdir(path) == Locate(path) \in ServedDirs

\* a <path:...> part of a rule: not empty, and it does not begin with a slash
RouteConverts(path) == ~path.abs /\ path.segs # <<>>

\* mutant: no path is taken for an escape
IsEscape_Never(safe_path) == FALSE

\* if safe_path.startswith('..')
IsEscape(safe_path) == StartsWithDots(safe_path)

\* abort(code) inside try: the HTTPException it raises is caught by
\* except Exception, which answers 500
Aborted(code) == [status |-> 500, read |-> {}]

\* download_file and view_file: the file of the path is sent
SendFile(file_path) ==
    LET safe_path == normpath(file_path)
        full_path == join(base_dir, safe_path)
    IN IF IsEscape(safe_path) THEN Aborted(403)
       ELSE IF ~isfile(full_path) THEN Aborted(404)
       ELSE [status |-> 200, read |-> {Locate(full_path)}]

\* download_folder: the files below the folder are put into a zip file
SendFolder(folder_path) ==
    LET safe_path == normpath(folder_path)
        full_path == join(base_dir, safe_path)
    IN IF IsEscape(safe_path) THEN Aborted(403)
       ELSE IF ~isdir(full_path) THEN Aborted(404)
       ELSE [status |-> 200,
             read |-> {Locate(full_path)}
                      \cup {f \in ServedFiles : IsUnder(f, Locate(full_path))}]

\* browse_files: a file is handed to view_file, a directory is listed
Browse(folder_path) ==
    LET safe_path == normpath(folder_path)
        full_path == join(base_dir, safe_path)
    IN IF IsEscape(safe_path) THEN Aborted(403)
       ELSE IF ~(isfile(full_path) \/ isdir(full_path)) THEN Aborted(404)
       ELSE IF isfile(full_path) THEN SendFile(folder_path)
       ELSE [status |-> 200,
             read |-> {Locate(full_path)}
                      \cup {f \in ServedFiles \cup ServedDirs :
                               Len(f) = Len(Locate(full_path)) + 1
                               /\ IsUnder(f, Locate(full_path))}]

InitServeIdle ==
    /\ r_pc = "off"
    /\ r_handler = "none"
    /\ r_path = PathStr(FALSE, <<>>)
    /\ r_read = {}
    /\ r_status = 0

Answer(handler, path, result) ==
    /\ r_pc = "idle"
    /\ r_handler' = handler
    /\ r_path' = path
    /\ r_read' = result.read
    /\ r_status' = result.status
    /\ r_pc' = "done"
    /\ UNCHANGED varsNotServe

download_file(file_path) ==
    /\ RouteConverts(file_path)
    /\ Answer("download_file", file_path, SendFile(file_path))

view_file(file_path) ==
    /\ RouteConverts(file_path)
    /\ Answer("view_file", file_path, SendFile(file_path))

download_folder(folder_path) ==
    /\ RouteConverts(folder_path)
    /\ Answer("download_folder", folder_path, SendFolder(folder_path))

\* /files/browse and /files/browse/<path:folder_path>
browse_files(folder_path) ==
    /\ RouteConverts(folder_path) \/ folder_path = PathStr(FALSE, <<>>)
    /\ Answer("browse_files", folder_path, Browse(folder_path))

\* no rule matches a path that begins with a slash: no handler is called
no_route(path) ==
    /\ ~RouteConverts(path) /\ path # PathStr(FALSE, <<>>)
    /\ Answer("none", path, [status |-> 404, read |-> {}])

\* ------------------------------------------------------------ placement of uploads
\* UPLOAD_FOLDER = 'db'
UPLOAD_FOLDER == PathStr(FALSE, <<"db">>)

\* item_details.get(key) of a key that is not there
NoValue == "None"

\* if not category or not file_type
MissingCategoryOrType(item_details) ==
    item_details.category \in {NoValue, ""} \/ item_details.type \in {NoValue, ""}

\* os.path.join(UPLOAD_FOLDER, category, file_type)
DirPathOf(item_details) ==
    join(join(UPLOAD_FOLDER, PathStr(FALSE, <<item_details.category>>)),
         PathStr(FALSE, <<item_details.type>>))

\* folder_path and temp_extract_dir: a subfolder of dir_path named after the
\* item and the time
FolderPathOf(item_details) == join(DirPathOf(item_details), PathStr(FALSE, <<"f">>))

TempExtractDirOf(item_details) == join(DirPathOf(item_details), PathStr(FALSE, <<"temp">>))

\* the directories there are once the handler has made dir_path and sub
DirsWith(item_details, subs) ==
    {<<>>, CWD, Locate(UPLOAD_FOLDER),
     Locate(join(UPLOAD_FOLDER, PathStr(FALSE, <<item_details.category>>))),
     Locate(DirPathOf(item_details))} \cup {Locate(sub) : sub \in subs}

Parent(loc) == IF loc = <<>> THEN loc ELSE SubSeq(loc, 1, Len(loc) - 1)

\* the last segment of a path names a file
EndsInName(path) ==
    path.segs # <<>> /\ path.segs[Len(path.segs)] \notin {"", ".", ".."}

\* the location a prefix of the path's segments leads to
LocatePrefix(path, k) == Locate(PathStr(path.abs, SubSeq(path.segs, 1, k)))

\* open(path, 'wb'): every segment before the last leads to a directory
Opens(path, dirs) ==
    /\ EndsInName(path)
    /\ \A k \in 0..(Len(path.segs) - 1) : LocatePrefix(path, k) \in dirs
    /\ Locate(path) \notin dirs

\* os.makedirs of the directory of the path, then open(path, 'wb'): the
\* directories on the way are made, which fails where '..' follows a name that
\* is not a directory yet
OpensAfterMakedirs(path, dirs) ==
    /\ EndsInName(path)
    /\ \A k \in 1..Len(path.segs) :
          path.segs[k] = ".." => LocatePrefix(path, k - 1) \in dirs
    /\ Locate(path) \notin dirs

Refused == [outcome |-> "refused", written |-> {}]

Raised == [outcome |-> "raised", written |-> {}]

Placed(locs) == [outcome |-> "placed", written |-> locs]

\* the name rename_file_based_on_item_details gives the file
RenamedName == "item"

\* upload_file: the file is saved as dir_path/<file.filename> and renamed in the
\* directory it was saved in
UploadFilePlaces(item_details, filename) ==
    IF filename = PathStr(FALSE, <<>>) THEN Refused
    ELSE IF ~item_details.found THEN Refused
    ELSE IF MissingCategoryOrType(item_details) THEN Refused
    ELSE LET original_file_path == join(DirPathOf(item_details), filename) IN
         IF ~Opens(original_file_path, DirsWith(item_details, {})) THEN Raised
         ELSE Placed({Locate(original_file_path),
                      Append(Parent(Locate(original_file_path)), RenamedName)})

\* process_folder_files: the file is saved as folder_path/<file_obj.filename>,
\* its directory made first
FolderFilesPlaces(item_details, filename) ==
    IF ~item_details.found THEN Refused
    ELSE IF MissingCategoryOrType(item_details) THEN Refused
    ELSE IF filename = PathStr(FALSE, <<>>) THEN Placed({})
    ELSE LET full_path == join(FolderPathOf(item_details), filename) IN
         IF ~OpensAfterMakedirs(full_path,
                                DirsWith(item_details, {FolderPathOf(item_details)}))
         THEN Raised
         ELSE Placed({Locate(full_path)})

\* ZipFile.extractall: the empty, '.' and '..' segments of a member's name and
\* its leading slash are dropped; a name that ends in a slash is a directory
ZipMemberPath(name) ==
    PathStr(FALSE, SelectSeq(name.segs, LAMBDA seg : seg \notin {"", ".", ".."}))

ZipFilePlaces(item_details, name) ==
    IF ~item_details.found THEN Refused
    ELSE IF MissingCategoryOrType(item_details) THEN Refused
    ELSE IF name.segs = <<>> \/ name.segs[Len(name.segs)] = "" THEN Placed({})
    ELSE IF ZipMemberPath(name).segs = <<>> THEN Raised
    ELSE Placed({Locate(join(FolderPathOf(item_details), ZipMemberPath(name)))})

\* the name of a tar member as tarfile reads it: trailing slashes are dropped
RECURSIVE StripTrailingSlashes(_)
StripTrailingSlashes(segs) ==
    IF segs # <<>> /\ segs[Len(segs)] = ""
    THEN StripTrailingSlashes(SubSeq(segs, 1, Len(segs) - 1))
    ELSE segs

\* the extraction filters of tarfile.extractall(path) without a filter
\* argument: 'fully_trusted' up to Python 3.13, 'data' from Python 3.14
TarFilters == {"fully_trusted", "data"}

\* upload_folder_direct: tar.extractall(path=temp_extract_dir). The 'data'
\* filter drops a leading slash and raises for a member outside the directory.
TarPlaces(item_details, name, filter) ==
    IF ~item_details.found THEN Refused
    ELSE IF MissingCategoryOrType(item_details) THEN Refused
    ELSE LET temp_extract_dir == TempExtractDirOf(item_details)
             member == PathStr(name.abs /\ filter = "fully_trusted",
                               StripTrailingSlashes(name.segs))
             targetpath == join(temp_extract_dir, member)
             dirs == DirsWith(item_details,
                              {FolderPathOf(item_details), temp_extract_dir})
         IN IF member.segs = <<>> THEN Placed({})
            ELSE IF /\ filter = "data"
                    /\ Locate(targetpath) # Locate(temp_extract_dir)
                    /\ ~IsUnder(Locate(targetpath), Locate(temp_extract_dir))
            THEN Raised
            ELSE IF ~OpensAfterMakedirs(targetpath, dirs) THEN Raised
            ELSE Placed({Locate(targetpath)})

InitPlaceIdle ==
    /\ p_pc = "off"
    /\ p_details = [found |-> FALSE, category |-> NoValue, type |-> NoValue]
    /\ p_name = PathStr(FALSE, <<>>)
    /\ p_handler = "none"
    /\ p_outcome = "none"
    /\ p_written = {}

Place(handler, result) ==
    /\ p_pc = "call"
    /\ p_handler' = handler
    /\ p_outcome' = result.outcome
    /\ p_written' = result.written
    /\ p_pc' = "done"
    /\ UNCHANGED <<p_details, p_name>>
    /\ UNCHANGED varsNotPlace

place_upload_file == Place("upload_file", UploadFilePlaces(p_details, p_name))

place_folder_files == Place("folder_files", FolderFilesPlaces(p_details, p_name))

place_zip_file == Place("zip_file", ZipFilePlaces(p_details, p_name))

place_tar(filter) == Place("upload_folder_direct", TarPlaces(p_details, p_name, filter))

\* ------------------------------------------------------------ binding store
\* A row of item_static; the routes keep an item's path in picture_url.
Row(item_id, picture_url, download_url) ==
    [item_id |-> item_id, picture_url |-> picture_url, download_url |-> download_url]

\* a path that was not given: None, NULL in the table
NoPath == <<>>

\* SELECT ... WHERE item_id = ?: the rows of the item, in rowid order
RowsOf(table, item_id) == SelectSeq(table, LAMBDA row : row.item_id = item_id)

\* mutant: the table has no primary key
PrimaryKeyTaken_Never(table, item_id) == FALSE

\* item_id INTEGER PRIMARY KEY: an INSERT of an item_id the table holds raises
\* sqlite3.IntegrityError
PrimaryKeyTaken(table, item_id) == RowsOf(table, item_id) # <<>>

\* INSERT INTO item_static: the row goes to its place in rowid order
InsertRow(table, row) ==
    SelectSeq(table, LAMBDA r : r.item_id < row.item_id)
    \o <<row>>
    \o SelectSeq(table, LAMBDA r : r.item_id >= row.item_id)

\* UPDATE item_static SET picture_url = ?, download_url = ? WHERE item_id = ?
UpdateBoth(table, item_id, picture_url, download_url) ==
    [k \in 1..Len(table) |->
        IF table[k].item_id = item_id THEN Row(item_id, picture_url, download_url)
        ELSE table[k]]

\* UPDATE item_static SET picture_url = ? WHERE item_id = ?
UpdatePicture(table, item_id, picture_url) ==
    [k \in 1..Len(table) |->
        IF table[k].item_id = item_id
        THEN Row(item_id, picture_url, table[k].download_url)
        ELSE table[k]]

\* add_item_static(item_id, picture_url): INSERT, and UPDATE on IntegrityError
AddItemStatic(table, item_id, picture_url) ==
    IF PrimaryKeyTaken(table, item_id)
    THEN UpdateBoth(table, item_id, picture_url, NoPath)
    ELSE InsertRow(table, Row(item_id, picture_url, NoPath))

\* update_item_static(item_id, picture_url): UPDATE of the row there is, of
\* picture_url if it is given, else INSERT
UpdateItemStatic(table, item_id, picture_url) ==
    IF RowsOf(table, item_id) # <<>>
    THEN IF picture_url # NoPath THEN UpdatePicture(table, item_id, picture_url)
         ELSE table
    ELSE InsertRow(table, Row(item_id, picture_url, NoPath))

\* DELETE FROM item_static WHERE item_id = ?
DeleteItemStatic(table, item_id) == SelectSeq(table, LAMBDA row : row.item_id # item_id)

\* get_item_static_route: fetchone() of the item's rows, "item_path" is its
\* second column; 404 without a row
GetItemStatic(table, item_id) ==
    IF RowsOf(table, item_id) = <<>> THEN [status |-> 404, item_path |-> NoPath]
    ELSE [status |-> 200, item_path |-> RowsOf(table, item_id)[1].picture_url]

\* get_all_items_static_route: every row as item_id and item_path
GetAllItemsStatic(table) ==
    [k \in 1..Len(table) |->
        [item_id |-> table[k].item_id, item_path |-> table[k].picture_url]]

StoreCall(op, item_id, item_path, status) ==
    [op |-> op, item_id |-> item_id, item_path |-> item_path, status |-> status]

NoCall == StoreCall("none", NoItem, NoPath, 0)

Stored(table, call) ==
    /\ b_calls < MaxCalls
    /\ b_table' = table
    /\ b_last' = call
    /\ b_calls' = b_calls + 1
    /\ UNCHANGED <<f_tree, f_items, f_handler, f_report, f_runs, f_first>>
    /\ UNCHANGED varsNotSync

\* POST /items/static/add/<int:item_id>
add_item_static_route(item_id, item_path) ==
    Stored(AddItemStatic(b_table, item_id, item_path),
           StoreCall("add", item_id, item_path, 201))

\* PUT /items/static/update/<int:item_id>
update_item_static_route(item_id, item_path) ==
    Stored(UpdateItemStatic(b_table, item_id, item_path),
           StoreCall("update", item_id, item_path, 200))

\* DELETE /items/static/delete/<int:item_id>
delete_item_static_route(item_id) ==
    Stored(DeleteItemStatic(b_table, item_id),
           StoreCall("delete", item_id, NoPath, 200))

\* ------------------------------------------------------------ listing and synchronizer
\* the files there can be under the storage root: one at the root, and three of
\* a category and type, one of which is another with an extension
FileX == <<"x">>

FileA == <<"docs", SEP, "pdf", SEP, "a">>

FileB == <<"docs", SEP, "pdf", SEP, "b">>

FileAPdf == FileA \o <<".pdf">>

\* SequenceMatcher(None, filename_base, item_name_lower).ratio(), in tenths, of
\* the one-letter names there are: 1.0 for equal names, 0.0 for different ones
calculate_filename_similarity(file_name, item_name) ==
    IF SplitextBase(file_name) = item_name THEN 10 ELSE 0

\* the items of the answer, each with the ratio of its name and the file's name
CatalogFor(items, file_name) ==
    [k \in 1..Len(items) |->
        [item_id |-> items[k].item_id, category |-> items[k].category,
         type |-> items[k].type,
         similarity |-> calculate_filename_similarity(file_name, items[k].name),
         details_match |-> FALSE]]

\* mutant: the catalog is used although the request failed
get_all_items_Stale(items, up, file_name) == CatalogFor(items, file_name)

\* get_all_items: the rows of the catalog, {} if the request fails
get_all_items(items, up, file_name) ==
    IF up THEN CatalogFor(items, file_name) ELSE <<>>

\* get_all_static_resources: the rows of the store, {} if the request fails
get_all_static_resources(table, up) ==
    IF up THEN GetAllItemsStatic(table) ELSE <<>>

\* predict_item_id(relative_path, file, all_items, static_resources)
PredictFor(file_path, items, items_up, static_resources) ==
    predict_item_id(file_path, Basename(file_path),
                    get_all_items(items, items_up, Basename(file_path)),
                    static_resources)

\* if item_id: None and 0 are false
IsTruthy(item_id) == item_id # NoItem /\ item_id # 0

\* list_files: one entry for each file os.walk gives
ListedFiles(tree, items, items_up, static_resources) ==
    [k \in 1..Len(tree) |->
        [path |-> tree[k],
         predicted |-> PredictFor(tree[k], items, items_up, static_resources),
         item_id |-> PredictFor(tree[k], items, items_up, static_resources),
         status |-> "listed"]]

\* what requests.put gives: 200, another status, or a RequestException
PutOutcomes == {"ok", "refused", "raise"}

\* the entry of sync_static_resources for one file
SyncEntry(path, item_id, outcome) ==
    [path |-> path,
     predicted |-> item_id,
     item_id |-> IF IsTruthy(item_id) THEN item_id ELSE NoItem,
     status |-> IF ~IsTruthy(item_id) THEN "no_item_id"
                ELSE IF outcome = "ok" THEN "updated"
                ELSE IF outcome = "refused" THEN "update_failed"
                ELSE "error"]

\* the loop of sync_static_resources from the k-th file on: the catalog and the
\* static resources were read before the loop, each PUT changes the store
RECURSIVE SyncFrom(_, _, _, _, _, _)
SyncFrom(k, tree, items, static_resources, outcomes, acc) ==
    IF k > Len(tree) THEN acc
    ELSE LET item_id == PredictFor(tree[k], items, TRUE, static_resources)
             static_resource_path == FILE_VIEW_PREPATH \o tree[k]
             put == IsTruthy(item_id) /\ outcomes[k] = "ok"
         IN SyncFrom(k + 1, tree, items, static_resources, outcomes,
                     [table |-> IF put
                                THEN UpdateItemStatic(acc.table, item_id,
                                                      static_resource_path)
                                ELSE acc.table,
                      files |-> Append(acc.files,
                                       SyncEntry(tree[k], item_id, outcomes[k]))])

NoRoute == [route |-> "none", items_up |-> TRUE, static_up |-> TRUE]

NoRun == [files |-> <<>>, table |-> <<>>]

InitSyncIdle ==
    /\ b_table = <<>>
    /\ b_last = NoCall
    /\ b_calls = 0
    /\ f_tree = <<>>
    /\ f_items = <<>>
    /\ f_handler = NoRoute
    /\ f_report = <<>>
    /\ f_runs = 0
    /\ f_first = NoRun

\* GET /files, with the metadata service's two lists reachable or not
list_files(items_up, static_up) ==
    /\ f_handler.route = "none"
    /\ f_handler' = [route |-> "list_files", items_up |-> items_up,
                     static_up |-> static_up]
    /\ f_report' = ListedFiles(f_tree, f_items, items_up,
                               get_all_static_resources(b_table, static_up))
    /\ UNCHANGED <<b_table, b_last, b_calls, f_tree, f_items, f_runs, f_first>>
    /\ UNCHANGED varsNotSync

\* POST /sync-static-resources
sync_static_resources(outcomes) ==
    /\ f_handler.route # "list_files"
    /\ f_runs < MaxRuns
    /\ LET run == SyncFrom(1, f_tree, f_items,
                           get_all_static_resources(b_table, TRUE), outcomes,
                           [table |-> b_table, files |-> <<>>])
       IN /\ b_table' = run.table
          /\ f_report' = run.files
          /\ f_first' = IF f_runs = 0 THEN run ELSE f_first
    /\ f_handler' = [route |-> "sync_static_resources", items_up |-> TRUE,
                     static_up |-> TRUE]
    /\ f_runs' = f_runs + 1
    /\ UNCHANGED <<b_last, b_calls, f_tree, f_items>>
    /\ UNCHANGED varsNotSync

\* ------------------------------------------------------------ retention of operations
\* (time.time() - op_info['start_time']) > 3600, in ticks of 300 seconds
RETENTION == 12

\* threading.Timer(300, cleanup_operation), in ticks of 300 seconds
GRACE == 1

NoEnd == [type |-> "none", status |-> "none", at |-> -1]

InitGcIdle ==
    /\ g_now = 0
    /\ g_registry = <<>>
    /\ g_thread = "none"
    /\ g_files = {}
    /\ g_timers = {}
    /\ g_hist = NoEnd

\* time passes, unless a timer is due; after MaxTime it passes only until the
\* timers that were started have fired
gc_tick ==
    /\ g_now < MaxTime \/ g_timers # {}
    /\ \A at \in g_timers : at > g_now
    /\ g_now' = g_now + 1
    /\ UNCHANGED <<g_registry, g_thread, g_files, g_timers, g_hist>>
    /\ UNCHANGED varsNotGc

\* GET /backup, POST /restore, POST /restore?chunk=true: the entry is made with
\* start_time; a restore saves its upload, a chunked restore makes its chunk
\* directory
start_operation(type) ==
    /\ g_registry = <<>> /\ g_hist = NoEnd /\ g_thread = "none"
    /\ g_registry' = <<[type |-> type,
                        status |-> IF type = "restore_chunked"
                                   THEN "receiving_chunks" ELSE "in_progress",
                        start_time |-> g_now]>>
    /\ g_thread' = IF type = "restore_chunked" THEN "none" ELSE "running"
    /\ g_files' = IF type = "restore" THEN {"restore_zip"}
                  ELSE IF type = "restore_chunked" THEN {"chunk_dir"}
                  ELSE {}
    /\ UNCHANGED <<g_now, g_timers, g_hist>>
    /\ UNCHANGED varsNotGc

\* the last chunk arrives: the chunks are joined into the restore zip, the chunk
\* directory is removed and the thread is started
last_chunk ==
    /\ g_registry # <<>> /\ g_registry[1].status = "receiving_chunks"
    /\ g_registry' = <<[g_registry[1] EXCEPT !.status = "processing"]>>
    /\ g_files' = {"restore_zip"}
    /\ g_thread' = "running"
    /\ UNCHANGED <<g_now, g_timers, g_hist>>
    /\ UNCHANGED varsNotGc

\* create_backup_archive and process_restore_archive end: completed, with the
\* backup zip written or the restore zip removed, or failed, with what was
\* written left
thread_ends(ok) ==
    /\ g_thread = "running" /\ g_registry # <<>>
    /\ LET type == g_registry[1].type
           status == IF ok THEN "completed" ELSE "failed"
       IN /\ g_registry' = <<[g_registry[1] EXCEPT !.status = status]>>
          /\ g_files' = IF type = "backup" THEN {"backup_zip"}
                        ELSE IF ok THEN {} ELSE g_files
          /\ g_hist' = [type |-> type, status |-> status, at |-> g_now]
    /\ g_thread' = "done"
    /\ UNCHANGED <<g_now, g_timers>>
    /\ UNCHANGED varsNotGc

\* op_info['status'] in ['completed', 'failed'] and
\* (time.time() - op_info['start_time']) > 3600
WindowOver(op_info, time) ==
    op_info.status \in Terminal /\ (time - op_info.start_time) > RETENTION

\* GET /operation/<id>: a completed backup whose file exists is sent when the
\* download flag is set; else the status is answered and, the window over, the
\* backup file is removed and a timer is started to remove the entry
operation_status(download) ==
    /\ g_registry # <<>>
    /\ LET op_info == g_registry[1]
           sent == /\ op_info.type = "backup" /\ op_info.status = "completed"
                   /\ download /\ "backup_zip" \in g_files
       IN IF ~sent /\ WindowOver(op_info, g_now)
          THEN /\ g_files' = IF op_info.type = "backup" /\ op_info.status = "completed"
                             THEN g_files \ {"backup_zip"} ELSE g_files
               /\ g_timers' = g_timers \cup {g_now + GRACE}
          ELSE UNCHANGED <<g_files, g_timers>>
    /\ UNCHANGED <<g_now, g_registry, g_thread, g_hist>>
    /\ UNCHANGED varsNotGc

\* cleanup_operation, when a timer fires
cleanup_operation(at) ==
    /\ at \in g_timers /\ at <= g_now
    /\ g_timers' = g_timers \ {at}
    /\ g_registry' = <<>>
    /\ UNCHANGED <<g_now, g_thread, g_files, g_hist>>
    /\ UNCHANGED varsNotGc

\* ------------------------------------------------------------ tar uploads, concurrently
\* POST /upload_folder_direct/<item_id> of the alpha file server, twice, for
\* items of one category and type. The archive of an upload holds one
\* directory with one file, and the file's name tells whose archive it is.
Uploaders == {1, 2}

StageItemIds == {7, 8}

TopDirs == {"p", "q"}

Stamps == 0..MaxSecond

ArchiveFile(u) == IF u = 1 THEN "f1" ELSE "f2"

ArchiveOf(u, top) == {<<top, ArchiveFile(u)>>}

OwnerOf(path) == IF path[Len(path)] = "f1" THEN 1 ELSE 2

\* folder_name = f"{item_name}_{item_id}_{timestamp}": the item's name follows
\* from its id
FolderNames == StageItemIds \X Stamps

FolderOf(u) == <<t_request[u].item_id, t_stamp[u]>>

\* temp_extract_dir = os.path.join(base_dir_path, f"temp_{timestamp}")
TempDirOf(timestamp) == timestamp

NoDir == [exists |-> FALSE, paths |-> {}]

NoRequest == [item_id |-> NoItem, top |-> ""]

InitStageIdle ==
    /\ t_second = 0
    /\ t_pc = [u \in Uploaders |-> "idle"]
    /\ t_request = [u \in Uploaders |-> NoRequest]
    /\ t_stamp = [u \in Uploaders |-> 0]
    /\ t_temp = [d \in Stamps |-> NoDir]
    /\ t_dest = [n \in FolderNames |-> {}]
    /\ t_resp = [u \in Uploaders |-> 0]

stage_tick ==
    /\ t_second < MaxSecond
    /\ t_second' = t_second + 1
    /\ UNCHANGED <<t_pc, t_request, t_stamp, t_temp, t_dest, t_resp>>
    /\ UNCHANGED varsNotStage

\* the timestamp is taken, the folder and the staging directory are made with
\* exist_ok, and the archive is extracted into the staging directory
stage_archive(u, item_id, top) ==
    /\ t_pc[u] = "idle"
    /\ LET d == TempDirOf(t_second) IN
        t_temp' = [t_temp EXCEPT ![d] =
            [exists |-> TRUE, paths |-> t_temp[d].paths \cup ArchiveOf(u, top)]]
    /\ t_pc' = [t_pc EXCEPT ![u] = "staged"]
    /\ t_request' = [t_request EXCEPT ![u] = [item_id |-> item_id, top |-> top]]
    /\ t_stamp' = [t_stamp EXCEPT ![u] = t_second]
    /\ UNCHANGED <<t_second, t_dest, t_resp>>
    /\ UNCHANGED varsNotStage

\* except Exception: the staging directory is removed if it exists, and 400
StageFails(u, folders) ==
    /\ t_temp' = [t_temp EXCEPT ![TempDirOf(t_stamp[u])] = NoDir]
    /\ t_dest' = folders
    /\ t_pc' = [t_pc EXCEPT ![u] = "done"]
    /\ t_resp' = [t_resp EXCEPT ![u] = 400]

\* the staging directory is listed: with one top directory, the files in it are
\* copied into the folder (copy2 replaces a file of the same name); with more,
\* each top directory is copied with copytree, which raises when the folder has
\* a directory of that name, after any of the others were copied
copy_staged(u) ==
    /\ t_pc[u] = "staged"
    /\ LET temp == t_temp[TempDirOf(t_stamp[u])]
           source_folders == {path[1] : path \in temp.paths}
           name == FolderOf(u)
           taken == {path[1] : path \in {q \in t_dest[name] : Len(q) = 2}}
       IN  IF ~temp.exists
             THEN StageFails(u, t_dest)
           ELSE IF Cardinality(source_folders) = 1
             THEN /\ t_dest' = [t_dest EXCEPT ![name] =
                        @ \cup {<<path[2]>> : path \in temp.paths}]
                  /\ t_pc' = [t_pc EXCEPT ![u] = "copied"]
                  /\ UNCHANGED <<t_temp, t_resp>>
           ELSE IF source_folders \cap taken = {}
             THEN /\ t_dest' = [t_dest EXCEPT ![name] = @ \cup temp.paths]
                  /\ t_pc' = [t_pc EXCEPT ![u] = "copied"]
                  /\ UNCHANGED <<t_temp, t_resp>>
           ELSE \E copied \in SUBSET (source_folders \ taken) :
                    StageFails(u, [t_dest EXCEPT ![name] =
                        @ \cup {path \in temp.paths : path[1] \in copied}])
    /\ UNCHANGED <<t_second, t_request, t_stamp>>
    /\ UNCHANGED varsNotStage

\* shutil.rmtree(temp_extract_dir), which raises when the directory is gone;
\* then the files of the folder are walked and the upload answers 200
remove_staged(u) ==
    /\ t_pc[u] = "copied"
    /\ IF t_temp[TempDirOf(t_stamp[u])].exists
         THEN /\ t_temp' = [t_temp EXCEPT ![TempDirOf(t_stamp[u])] = NoDir]
              /\ t_pc' = [t_pc EXCEPT ![u] = "done"]
              /\ t_resp' = [t_resp EXCEPT ![u] = 200]
              /\ UNCHANGED t_dest
         ELSE StageFails(u, t_dest)
    /\ UNCHANGED <<t_second, t_request, t_stamp>>
    /\ UNCHANGED varsNotStage

\* ------------------------------------------------------------ single uploads, concurrently
\* POST /upload/<item_id> of the alpha file server, twice for one item: the
\* threads interleave between file.save, the os.path.exists loop and os.rename.
InitRaceIdle ==
    /\ k_dir = <<>>
    /\ k_pc = [u \in Uploaders |-> "idle"]
    /\ k_saved = [u \in Uploaders |-> <<>>]
    /\ k_new = [u \in Uploaders |-> <<>>]
    /\ k_renamed = [u \in Uploaders |-> <<>>]

\* file.save(original_file_path): the file is stored under its own name, over a
\* file of that name
race_save(u, filename) ==
    /\ k_pc[u] = "idle"
    /\ k_dir' = Put(k_dir, filename, UploadedContent(u - 1))
    /\ k_saved' = [k_saved EXCEPT ![u] = filename]
    /\ k_pc' = [k_pc EXCEPT ![u] = "saved"]
    /\ UNCHANGED <<k_new, k_renamed>>
    /\ UNCHANGED varsNotRace

\* while os.path.exists(new_file_path): the first name that is free now
race_probe(u) ==
    /\ k_pc[u] = "saved"
    /\ k_new' = [k_new EXCEPT ![u] = NewFilePath(k_dir, 0)]
    /\ k_pc' = [k_pc EXCEPT ![u] = "probed"]
    /\ UNCHANGED <<k_dir, k_saved, k_renamed>>
    /\ UNCHANGED varsNotRace

\* os.rename(file_path, new_file_path): it replaces a file at the new path, and
\* raises OSError when the file is gone, after which file_path is returned
race_rename(u) ==
    /\ k_pc[u] = "probed"
    /\ IF k_saved[u] \in DOMAIN k_dir
       THEN /\ k_dir' = Put(Drop(k_dir, k_saved[u]), k_new[u], k_dir[k_saved[u]])
            /\ k_renamed' = [k_renamed EXCEPT ![u] = k_new[u]]
       ELSE /\ k_renamed' = [k_renamed EXCEPT ![u] = k_saved[u]]
            /\ UNCHANGED k_dir
    /\ k_pc' = [k_pc EXCEPT ![u] = "done"]
    /\ UNCHANGED <<k_saved, k_new>>
    /\ UNCHANGED varsNotRace

\* ------------------------------------------------------------ rate limit
\* RATE_LIMIT = 100 requests in RATE_TIME = 3600 seconds, scaled: two requests
\* in two ticks
RATE_LIMIT == 2

RATE_TIME == 2

ClientIps == {"ip1", "ip2"}

Workers == {1, 2}

NoLocal == [ip |-> "", current_time |-> 0, kept |-> <<>>]

NoAnswer == [status |-> 0, recorded |-> FALSE]

\* [t for t in request_history.get(ip, []) if current_time - t < RATE_TIME]
RECURSIVE Recent(_, _)
Recent(times, current_time) ==
    IF times = <<>> THEN <<>>
    ELSE IF current_time - Head(times) < RATE_TIME
         THEN <<Head(times)>> \o Recent(Tail(times), current_time)
         ELSE Recent(Tail(times), current_time)

InitRateIdle ==
    /\ q_now = 0
    /\ q_history = [ip \in ClientIps |-> <<>>]
    /\ q_pc = [w \in Workers |-> "idle"]
    /\ q_local = [w \in Workers |-> NoLocal]
    /\ q_count = 0
    /\ q_admitted = <<>>
    /\ q_last = NoAnswer

rate_tick ==
    /\ q_now < MaxTicks
    /\ q_now' = q_now + 1
    /\ UNCHANGED <<q_history, q_pc, q_local, q_count, q_admitted, q_last>>
    /\ UNCHANGED varsNotRate

\* a request arrives: the time is read and the list of the ip is filtered
rate_filter(w, ip) ==
    /\ q_pc[w] = "idle"
    /\ q_count < MaxRequests
    /\ q_count' = q_count + 1
    /\ q_local' = [q_local EXCEPT ![w] =
            [ip |-> ip, current_time |-> q_now, kept |-> Recent(q_history[ip], q_now)]]
    /\ q_pc' = [q_pc EXCEPT ![w] = "filtered"]
    /\ UNCHANGED <<q_now, q_history, q_admitted, q_last>>
    /\ UNCHANGED varsNotRate

\* request_history[ip] = the filtered list
rate_store(w) ==
    /\ q_pc[w] = "filtered"
    /\ q_history' = [q_history EXCEPT ![q_local[w].ip] = q_local[w].kept]
    /\ q_pc' = [q_pc EXCEPT ![w] = "stored"]
    /\ UNCHANGED <<q_now, q_local, q_count, q_admitted, q_last>>
    /\ UNCHANGED varsNotRate

\* if len(request_history.get(ip, [])) >= RATE_LIMIT: 429
rate_check(w) ==
    /\ q_pc[w] = "stored"
    /\ IF Len(q_history[q_local[w].ip]) >= RATE_LIMIT
       THEN /\ q_pc' = [q_pc EXCEPT ![w] = "idle"]
            /\ q_last' = [status |-> 429, recorded |-> FALSE]
       ELSE /\ q_pc' = [q_pc EXCEPT ![w] = "admitted"]
            /\ UNCHANGED q_last
    /\ UNCHANGED <<q_now, q_history, q_local, q_count, q_admitted>>
    /\ UNCHANGED varsNotRate

\* request_history.setdefault(ip, []).append(current_time), and the handler runs
rate_append(w) ==
    /\ q_pc[w] = "admitted"
    /\ q_history' = [q_history EXCEPT ![q_local[w].ip] =
            Append(@, q_local[w].current_time)]
    /\ q_admitted' = Append(q_admitted, <<q_local[w].ip, q_local[w].current_time>>)
    /\ q_last' = [status |-> 200, recorded |-> TRUE]
    /\ q_pc' = [q_pc EXCEPT ![w] = "idle"]
    /\ UNCHANGED <<q_now, q_local, q_count>>
    /\ UNCHANGED varsNotRate

\* ------------------------------------------------------------ metadata cache
\* CACHE_TTL = 60 seconds, scaled: two ticks
CACHE_TTL == 2

\* what the items API can hold: lists of item ids
Catalogs == {<<>>, <<7>>, <<7, 8>>}

FetchOutcomes == {"ok", "status", "raise"}

NoFetch == [called |-> FALSE, contacted |-> FALSE, outcome |-> "none",
            returned |-> <<>>, fresh |-> FALSE, before |-> <<>>]

NoHist == [ok_ever |-> FALSE, last_ok |-> <<>>, nonempty_ever |-> FALSE,
           nonempty_at |-> -1]

\* current_time - items_cache['timestamp'] < CACHE_TTL and items_cache['data']
CacheValid(cache, current_time) ==
    current_time - cache.timestamp < CACHE_TTL /\ cache.data # <<>>

\* mutant: nothing is returned when the call fails
Stale_Dropped(cache) == <<>>

\* if items_cache['data']: return items_cache['data'], else return []
Stale(cache) == IF cache.data # <<>> THEN cache.data ELSE <<>>

\* what fetch_items returns
FetchReturns(cache, current_time, outcome, items) ==
    IF CacheValid(cache, current_time) THEN cache.data
    ELSE IF outcome = "ok" THEN items
    ELSE Stale(cache)

InitCacheIdle ==
    /\ i_now = 0
    /\ i_cache = [timestamp |-> 0, data |-> <<>>]
    /\ i_last = NoFetch
    /\ i_hist = NoHist

cache_tick ==
    /\ i_now < MaxTicks
    /\ i_now' = i_now + 1
    /\ UNCHANGED <<i_cache, i_last, i_hist>>
    /\ UNCHANGED varsNotCache

\* fetch_items(), when the items API would answer with outcome and items
fetch_items(outcome, items) ==
    /\ LET contacted == ~CacheValid(i_cache, i_now)
           stored == contacted /\ outcome = "ok"
       IN  /\ i_cache' = IF stored THEN [timestamp |-> i_now, data |-> items]
                         ELSE i_cache
           /\ i_last' = [called |-> TRUE, contacted |-> contacted,
                         outcome |-> IF contacted THEN outcome ELSE "none",
                         returned |-> FetchReturns(i_cache, i_now, outcome, items),
                         fresh |-> /\ i_hist.nonempty_at >= 0
                                   /\ i_now - i_hist.nonempty_at < CACHE_TTL
                                   /\ i_hist.last_ok # <<>>,
                         before |-> i_hist.last_ok]
           /\ i_hist' = IF stored
                        THEN [ok_ever |-> TRUE, last_ok |-> items,
                              nonempty_ever |-> i_hist.nonempty_ever \/ items # <<>>,
                              nonempty_at |-> IF items # <<>> THEN i_now
                                              ELSE i_hist.nonempty_at]
                        ELSE i_hist
    /\ UNCHANGED i_now
    /\ UNCHANGED varsNotCache

\* ------------------------------------------------------------ file operations
\* the catalog fetch_items returns: items 7 and 8 of one category and type, and
\* item 9 without a type
CatalogItems ==
    (7 :> [category |-> "c", type |-> "txt"]) @@
    (8 :> [category |-> "c", type |-> "txt"]) @@
    (9 :> [category |-> "c", type |-> ""])

\* request arguments: NoItem, "" stand for an argument that is not given; 5 is
\* no item of the catalog. A file name is its base and its extension; the names
\* of the model are left as they are by secure_filename.
RequestItemIds == {NoItem, 5, 7, 8, 9}

RequestCategories == {"", "c", "d"}

RequestTypes == {"", "txt"}

RequestFilenames == {<<>>, <<"f", "txt">>, <<"g", "txt">>, <<"f", "exe">>}

\* get_item_by_id: the item, or None
NoneItem == [category |-> "", type |-> ""]

HasItem(item_id) == item_id \in DOMAIN CatalogItems

get_item_by_id(item_id) ==
    IF HasItem(item_id) THEN CatalogItems[item_id] ELSE NoneItem

\* ALLOWED_EXTENSIONS.get(item_type): 'txt' allows txt; a type without an entry
\* allows every extension
allowed_file(filename, item_type) ==
    /\ filename # <<>>
    /\ item_type = "txt" => filename[2] = "txt"

\* ensure_directory_exists: os.makedirs(directory, exist_ok=True)
ensure_directory_exists(dirs, category, item_type) ==
    dirs \cup {<<category, item_type>>}

\* get_file_path with category and item_type: the error, and the directories
\* after the call
get_file_path(dirs, category, item_type) ==
    IF category # "" /\ item_type # ""
    THEN [error |-> FALSE, dirs |-> ensure_directory_exists(dirs, category, item_type)]
    ELSE [error |-> TRUE, dirs |-> dirs]

\* the files of a directory
FilesIn(files, category, item_type) ==
    {k \in DOMAIN files : k[1] = category /\ k[2] = item_type}

NoFileRequest == [operation |-> "none", item_id |-> NoItem, status |-> 0,
               dirs |-> {}, files |-> <<>>]

InitFilesIdle ==
    /\ h_dirs = {}
    /\ h_files = <<>>
    /\ h_last = NoFileRequest

\* the answer of a request and what it left of the tree
Answered(operation, item_id, status, dirs, files) ==
    /\ h_dirs' = dirs
    /\ h_files' = files
    /\ h_last' = [operation |-> operation, item_id |-> item_id, status |-> status,
                  dirs |-> h_dirs, files |-> h_files]
    /\ UNCHANGED varsNotFiles

\* GET /files: handle_file_operation('list')
files_list(item_id, category, item_type) ==
    IF category # "" /\ item_type # ""
    THEN LET found == get_file_path(h_dirs, category, item_type) IN
         Answered("list", item_id, IF found.error THEN 400 ELSE 200,
                  found.dirs, h_files)
    ELSE IF item_id # NoItem
    THEN IF ~HasItem(item_id)
         THEN Answered("list", item_id, 404, h_dirs, h_files)
         ELSE LET item == get_item_by_id(item_id)
                  found == get_file_path(h_dirs, item.category, item.type)
              IN  Answered("list", item_id, IF found.error THEN 400 ELSE 200,
                           found.dirs, h_files)
    ELSE Answered("list", item_id, 200, h_dirs, h_files)

\* POST /files with a file: handle_file_operation('upload'); valid is the answer
\* of is_valid_file_type
files_upload(item_id, category, item_type, filename, valid) ==
    IF filename = <<>>
    THEN Answered("upload", item_id, 400, h_dirs, h_files)
    ELSE IF item_id # NoItem /\ ~HasItem(item_id)
    THEN Answered("upload", item_id, 404, h_dirs, h_files)
    ELSE LET item == get_item_by_id(item_id)
             c == IF item_id # NoItem THEN item.category ELSE category
             t == IF item_id # NoItem THEN item.type ELSE item_type
             found == get_file_path(h_dirs, c, t)
         IN  IF ~allowed_file(filename, t) \/ ~valid \/ found.error
             THEN Answered("upload", item_id, 400, h_dirs, h_files)
             ELSE Answered("upload", item_id, 201, found.dirs,
                           Put(h_files, <<c, t, filename>>, item_id))

\* DELETE /files: handle_file_operation('delete'), by file name or, without one,
\* by item_id
files_delete(item_id, category, item_type, filename) ==
    IF filename = <<>> /\ item_id = NoItem
    THEN Answered("delete", item_id, 400, h_dirs, h_files)
    ELSE IF item_id # NoItem /\ ~HasItem(item_id)
    THEN Answered("delete", item_id, 404, h_dirs, h_files)
    ELSE LET item == get_item_by_id(item_id)
             c == IF item_id # NoItem THEN item.category ELSE category
             t == IF item_id # NoItem THEN item.type ELSE item_type
             found == get_file_path(h_dirs, c, t)
         IN  IF found.error
             THEN Answered("delete", item_id, 400, h_dirs, h_files)
             ELSE IF filename # <<>>
             THEN IF <<c, t, filename>> \notin DOMAIN h_files
                  THEN Answered("delete", item_id, 404, found.dirs, h_files)
                  ELSE Answered("delete", item_id, 200, found.dirs,
                                Drop(h_files, <<c, t, filename>>))
             ELSE IF FilesIn(h_files, c, t) = {}
                  THEN Answered("delete_item", item_id, 404, found.dirs, h_files)
                  ELSE Answered("delete_item", item_id, 200, found.dirs,
                                Restrict(h_files, DOMAIN h_files \ FilesIn(h_files, c, t)))

\* ------------------------------------------------------------ specifications
vars == <<varsOps, varsIngest, varsMatcher, varsSanitize, varsServe, varsPlace, varsSync, varsGc, varsStage, varsRace, varsRate, varsCache, varsFiles>>

\* The operation tracker: any requests, at any clock values, with their threads.
OpsArchives ==
    {<<FileTok(<<DB_FOLDER, "b">>, 2), Eocd>>, <<BadTok, Eocd>>}

ChunkData == {<<FileTok(<<DB_FOLDER, "b">>, 2)>>, <<Eocd>>}

\* the client's archive, cut into chunks of one token: chunk n is its piece n
ClientArchive ==
    [j \in 1..(MaxChunks + 1) |->
        IF j = 2 THEN Eocd ELSE FileTok(<<DB_FOLDER, "b">>, IF j = 1 THEN 2 ELSE 1)]

ChunkOf(n) == <<ClientArchive[n + 1]>>

InitOps ==
    /\ InitOpsState
    /\ InitIngestState(<<>>)
    /\ InitMatcherIdle
    /\ InitSanitizeIdle
    /\ InitServeIdle
    /\ InitPlaceIdle
    /\ InitSyncIdle
    /\ InitGcIdle
    /\ InitStageIdle
    /\ InitRaceIdle
    /\ InitRateIdle
    /\ InitCacheIdle
    /\ InitFilesIdle
    /\ db = (<<DB_FOLDER, "a">> :> 1)

NextOps ==
    \/ Tick
    \/ backup_db
    \/ \E bytes \in OpsArchives, saved \in BOOLEAN : restore_full(bytes, saved)
    \/ \E total \in 0..MaxChunks : restore_chunk_init(total)
    \/ \E id \in 0..MaxClock, n \in 0..(MaxChunks - 1), chunk \in ChunkData :
          restore_chunk_upload(id, n, chunk)
    \/ \E t \in 1..Len(tasks), written \in BOOLEAN : backup_zip(t, written)
    \/ \E t \in 1..Len(tasks) : backup_status(t)
    \/ \E t \in 1..Len(tasks) : backup_file_path(t)
    \/ \E t \in 1..Len(tasks) : backup_except(t)
    \/ \E t \in 1..Len(tasks), copied \in Trees : restore_copy(t, copied)
    \/ \E t \in 1..Len(tasks) : restore_empty(t)
    \/ \E t \in 1..Len(tasks) : restore_open(t)
    \/ \E t \in 1..Len(tasks) : restore_extract(t)
    \/ \E t \in 1..Len(tasks) : restore_status(t)
    \/ \E t \in 1..Len(tasks) : restore_rmzip(t)
    \/ \E t \in 1..Len(tasks) : restore_except(t)
    \/ \E t \in 1..Len(tasks), restored \in Trees : restore_rollback(t, restored)

SpecOps == InitOps /\ [][NextOps]_vars

\* One full-upload restore of any archive into any live tree.
InitRestore ==
    /\ InitOpsState
    /\ InitIngestState(<<>>)
    /\ InitMatcherIdle
    /\ InitSanitizeIdle
    /\ InitServeIdle
    /\ InitPlaceIdle
    /\ InitSyncIdle
    /\ InitGcIdle
    /\ InitStageIdle
    /\ InitRaceIdle
    /\ InitRateIdle
    /\ InitCacheIdle
    /\ InitFilesIdle
    /\ db \in Trees

NextRestore ==
    \/ /\ nreq = 0
       /\ \E bytes \in SeqsUpTo(Tokens, MaxLen) : restore_full(bytes, TRUE)
    \/ \E t \in 1..Len(tasks), copied \in Trees : restore_copy(t, copied)
    \/ \E t \in 1..Len(tasks) : restore_empty(t)
    \/ \E t \in 1..Len(tasks) : restore_open(t)
    \/ \E t \in 1..Len(tasks) : restore_extract(t)
    \/ \E t \in 1..Len(tasks) : restore_status(t)
    \/ \E t \in 1..Len(tasks) : restore_rmzip(t)
    \/ \E t \in 1..Len(tasks) : restore_except(t)
    \/ \E t \in 1..Len(tasks), restored \in Trees : restore_rollback(t, restored)

\* Chunked restores only: initialisations, chunk uploads and the restore threads.
NextChunked ==
    \/ nreq < MaxChunked /\ Tick
    \/ nreq < MaxChunked /\ \E total \in 0..MaxChunks : restore_chunk_init(total)
    \/ \E id \in 0..MaxClock, n \in 0..(MaxChunks - 1) :
          restore_chunk_upload(id, n, ChunkOf(n))
    \/ \E t \in 1..Len(tasks), copied \in Trees : restore_copy(t, copied)
    \/ \E t \in 1..Len(tasks) : restore_empty(t)
    \/ \E t \in 1..Len(tasks) : restore_open(t)
    \/ \E t \in 1..Len(tasks) : restore_extract(t)
    \/ \E t \in 1..Len(tasks) : restore_status(t)
    \/ \E t \in 1..Len(tasks) : restore_rmzip(t)
    \/ \E t \in 1..Len(tasks) : restore_except(t)
    \/ \E t \in 1..Len(tasks), restored \in Trees : restore_rollback(t, restored)

SpecChunked == InitOps /\ [][NextChunked]_vars

SpecRestore == InitRestore /\ [][NextRestore]_vars

\* A backup of any live tree, then uploads and deletes, then the restore of the
\* archive the backup wrote.
BackupDone == Len(tasks) >= 1 /\ tasks[1].fn = "backup" /\ tasks[1].pc = "done"

NextRoundTrip ==
    \/ Tick
    \/ nreq = 0 /\ backup_db
    \/ \E t \in 1..Len(tasks), written \in BOOLEAN : backup_zip(t, written)
    \/ \E t \in 1..Len(tasks) : backup_status(t)
    \/ \E t \in 1..Len(tasks) : backup_file_path(t)
    \/ \E t \in 1..Len(tasks) : backup_except(t)
    \/ /\ nreq = 1 /\ BackupDone
       /\ \E path \in Paths, content \in Contents : upload_saved(path, content)
    \/ /\ nreq = 1 /\ BackupDone
       /\ \E path \in Paths : delete_removed(path)
    \/ /\ nreq = 1 /\ BackupDone /\ IsZip(tmp_backup[tasks[1].op])
       /\ restore_full(tmp_backup[tasks[1].op], TRUE)
    \/ \E t \in 1..Len(tasks), copied \in Trees : restore_copy(t, copied)
    \/ \E t \in 1..Len(tasks) : restore_empty(t)
    \/ \E t \in 1..Len(tasks) : restore_open(t)
    \/ \E t \in 1..Len(tasks) : restore_extract(t)
    \/ \E t \in 1..Len(tasks) : restore_status(t)
    \/ \E t \in 1..Len(tasks) : restore_rmzip(t)
    \/ \E t \in 1..Len(tasks) : restore_except(t)
    \/ \E t \in 1..Len(tasks), restored \in Trees : restore_rollback(t, restored)

SpecRoundTrip == InitRestore /\ [][NextRoundTrip]_vars

\* Full-upload restores of two archives with different files, their threads
\* interleaving in any way.
RestoreArchives ==
    {<<FileTok(<<DB_FOLDER, "a">>, 1), Eocd>>, <<FileTok(<<DB_FOLDER, "b">>, 2), Eocd>>}

NextRestores ==
    \/ Tick
    \/ \E bytes \in RestoreArchives : restore_full(bytes, TRUE)
    \/ \E t \in 1..Len(tasks), copied \in Trees : restore_copy(t, copied)
    \/ \E t \in 1..Len(tasks) : restore_empty(t)
    \/ \E t \in 1..Len(tasks) : restore_open(t)
    \/ \E t \in 1..Len(tasks) : restore_extract(t)
    \/ \E t \in 1..Len(tasks) : restore_status(t)
    \/ \E t \in 1..Len(tasks) : restore_rmzip(t)
    \/ \E t \in 1..Len(tasks) : restore_except(t)
    \/ \E t \in 1..Len(tasks), restored \in Trees : restore_rollback(t, restored)

SpecRestores == InitRestore /\ [][NextRestores]_vars

\* One upload of each kind: a file, a ZIP file, the files of a directory, or a
\* tar stream, with every outcome of the extraction, the copies and the upserts.
InitIngest ==
    /\ InitOpsState
    /\ db = EmptyTree
    /\ \E dir \in TypeDirs : InitIngestState(dir)
    /\ InitMatcherIdle
    /\ InitSanitizeIdle
    /\ InitServeIdle
    /\ InitPlaceIdle
    /\ InitSyncIdle
    /\ InitGcIdle
    /\ InitStageIdle
    /\ InitRaceIdle
    /\ InitRateIdle
    /\ InitCacheIdle
    /\ InitFilesIdle

NextIngest ==
    \/ \E archive \in ArchiveTrees : tar_begin(archive)
    \/ \E valid \in BOOLEAN : tar_open(valid)
    \/ \E p \in DOMAIN u_archive : tar_extract(p)
    \/ tar_extract_raise
    \/ \E found \in BOOLEAN : tar_discover(found)
    \/ \E src \in DOMAIN staging : tar_copy(src)
    \/ tar_copy_raise
    \/ tar_cleanup
    \/ tar_except
    \/ \E kind \in {"zip", "multi"}, archive \in ArchiveTrees : folder_begin(kind, archive)
    \/ \E valid \in BOOLEAN : zip_open(valid)
    \/ \E p \in DOMAIN u_archive : zip_extract(p)
    \/ zip_extract_raise
    \/ zip_extracted
    \/ \E p \in DOMAIN u_archive : multi_save(p)
    \/ multi_save_raise
    \/ multi_saved
    \/ \E f \in DOMAIN dest, outcome \in Outcomes : bind_file(f, outcome)
    \/ folder_done
    \/ \E filename \in UploadNames : single_save(filename)
    \/ \E renamed \in BOOLEAN : single_rename(renamed)
    \/ \E outcome \in Outcomes : single_bind(outcome)

SpecIngest == InitIngest /\ [][NextIngest]_vars

\* The inputs of predict_item_id: a relative path of up to two directories and a
\* file name of up to MaxBase pieces, with or without an extension; a catalog of up
\* to MaxItems items with different ids.
DirPrefixes == {<<>>, <<"docs", SEP>>, <<"docs", SEP, "pdf", SEP>>}

BaseChars == {"item", "_", "7"}

FileNames ==
    {b \o e : b \in SeqsUpTo(BaseChars, MaxBase) \ {<<>>}, e \in {<<>>, <<".pdf">>}}

FilePaths == {d \o f : d \in DirPrefixes, f \in FileNames}

ItemIds == {7, 8}

CategoryTypes == {<<"docs", "pdf">>, <<"docs", "docs">>, <<"pdf", "pdf">>}

\* the ratios SequenceMatcher gives, in tenths
Ratios == {3, 8}

Items ==
    {[item_id |-> id, category |-> <<ct[1]>>, type |-> <<ct[2]>>,
      similarity |-> r, details_match |-> dm] :
        id \in ItemIds, ct \in CategoryTypes, r \in Ratios, dm \in BOOLEAN}

ItemDicts ==
    {items \in SeqsUpTo(Items, MaxItems) :
        \A i, j \in 1..Len(items) : i # j => items[i].item_id # items[j].item_id}

\* static resources none of which holds the path: none, one without a path, one
\* with the path of another file
StaticWithoutMatch ==
    {<<>>, <<[item_id |-> 5, item_path |-> <<>>]>>,
     <<[item_id |-> 5, item_path |-> FILE_VIEW_PREPATH \o <<"other">>]>>}

\* the item_path values of the static resources for a file: none, the view URL of
\* the file, a longer path that holds the file's, the path of another file
ResourcePaths(file_path) ==
    {<<>>, FILE_VIEW_PREPATH \o file_path, <<"db", SEP>> \o file_path, <<"other">>}

\* static resources in iteration order; the i-th is of item 4 + i
StaticDicts(file_path) ==
    UNION {{[i \in 1..n |-> [item_id |-> 4 + i, item_path |-> paths[i]]] :
               paths \in [1..n -> ResourcePaths(file_path)]} : n \in 0..MaxBindings}

InitMatcher ==
    /\ InitOpsState
    /\ db = EmptyTree
    /\ InitIngestState(<<>>)
    /\ InitSanitizeIdle
    /\ InitServeIdle
    /\ InitPlaceIdle
    /\ InitSyncIdle
    /\ InitGcIdle
    /\ InitStageIdle
    /\ InitRaceIdle
    /\ InitRateIdle
    /\ InitCacheIdle
    /\ InitFilesIdle
    /\ m_pc = "call"
    /\ m_file_path \in FilePaths
    /\ m_items \in ItemDicts
    /\ m_static \in StaticWithoutMatch
    /\ m_result = NoItem

NextMatcher == call_predict_item_id

SpecMatcher == InitMatcher /\ [][NextMatcher]_vars

\* The same call with static resources of every kind and at most one item.
InitMatcherStatic ==
    /\ InitOpsState
    /\ db = EmptyTree
    /\ InitIngestState(<<>>)
    /\ InitSanitizeIdle
    /\ InitServeIdle
    /\ InitPlaceIdle
    /\ InitSyncIdle
    /\ InitGcIdle
    /\ InitStageIdle
    /\ InitRaceIdle
    /\ InitRateIdle
    /\ InitCacheIdle
    /\ InitFilesIdle
    /\ m_pc = "call"
    /\ m_file_path \in FilePaths
    /\ m_items \in {items \in ItemDicts : Len(items) <= 1}
    /\ m_static \in StaticDicts(m_file_path)
    /\ m_result = NoItem

SpecMatcherStatic == InitMatcherStatic /\ [][NextMatcher]_vars

\* Single-file uploads for one item, one after the other, into a type directory
\* that holds any of the item's names.
NextUploads ==
    \/ \E filename \in UploadNames : single_save(filename)
    \/ \E renamed \in BOOLEAN : single_rename(renamed)
    \/ \E outcome \in Outcomes : single_bind(outcome)
    \/ upload_file_return

SpecUploads == InitIngest /\ [][NextUploads]_vars

\* One call of sanitize_filename with every name of up to MaxName characters.
InitSanitize ==
    /\ InitOpsState
    /\ db = EmptyTree
    /\ InitIngestState(<<>>)
    /\ InitMatcherIdle
    /\ InitServeIdle
    /\ InitPlaceIdle
    /\ InitSyncIdle
    /\ InitGcIdle
    /\ InitStageIdle
    /\ InitRaceIdle
    /\ InitRateIdle
    /\ InitCacheIdle
    /\ InitFilesIdle
    /\ s_pc = "call"
    /\ s_name \in SeqsUpTo(Chars, MaxName)
    /\ s_result = <<>>

NextSanitize == call_sanitize_filename

SpecSanitize == InitSanitize /\ [][NextSanitize]_vars

\* One read-side request with every path of up to MaxSegs segments.
RequestSegs == {"x", "d", "..", "..x", ""}

RequestPaths == PathStrs(RequestSegs, MaxSegs)

InitServe ==
    /\ InitOpsState
    /\ db = EmptyTree
    /\ InitIngestState(<<>>)
    /\ InitMatcherIdle
    /\ InitSanitizeIdle
    /\ InitPlaceIdle
    /\ InitSyncIdle
    /\ InitGcIdle
    /\ InitStageIdle
    /\ InitRaceIdle
    /\ InitRateIdle
    /\ InitCacheIdle
    /\ InitFilesIdle
    /\ r_pc = "idle"
    /\ r_handler = "none"
    /\ r_path = PathStr(FALSE, <<>>)
    /\ r_read = {}
    /\ r_status = 0

NextServe ==
    \/ \E path \in RequestPaths : download_file(path)
    \/ \E path \in RequestPaths : view_file(path)
    \/ \E path \in RequestPaths : download_folder(path)
    \/ \E path \in RequestPaths : browse_files(path)
    \/ \E path \in RequestPaths : no_route(path)

SpecServe == InitServe /\ [][NextServe]_vars

\* One upload of one file, with every item details and every client name of up
\* to MaxSegs segments.
NameSegs == {"x", "..", ""}

ClientNames == PathStrs(NameSegs, MaxSegs)

ItemDetails ==
    {[found |-> FALSE, category |-> NoValue, type |-> NoValue]}
    \cup {[found |-> TRUE, category |-> c, type |-> t] :
             c \in {"c", "", NoValue}, t \in {"t", "", NoValue}}

InitPlace ==
    /\ InitOpsState
    /\ db = EmptyTree
    /\ InitIngestState(<<>>)
    /\ InitMatcherIdle
    /\ InitSanitizeIdle
    /\ InitServeIdle
    /\ InitSyncIdle
    /\ InitGcIdle
    /\ InitStageIdle
    /\ InitRaceIdle
    /\ InitRateIdle
    /\ InitCacheIdle
    /\ InitFilesIdle
    /\ p_pc = "call"
    /\ p_details \in ItemDetails
    /\ p_name \in ClientNames
    /\ p_handler = "none"
    /\ p_outcome = "none"
    /\ p_written = {}

NextPlace ==
    \/ place_upload_file
    \/ place_folder_files
    \/ place_zip_file
    \/ \E filter \in TarFilters : place_tar(filter)

SpecPlace == InitPlace /\ [][NextPlace]_vars

\* Calls of the binding store for two items, one of them item 0.
StoreItemIds == {0, 7}

StorePaths == {NoPath, FILE_VIEW_PREPATH \o FileA, FILE_VIEW_PREPATH \o FileB}

InitStore ==
    /\ InitOpsState
    /\ db = EmptyTree
    /\ InitIngestState(<<>>)
    /\ InitMatcherIdle
    /\ InitSanitizeIdle
    /\ InitServeIdle
    /\ InitPlaceIdle
    /\ InitSyncIdle
    /\ InitGcIdle
    /\ InitStageIdle
    /\ InitRaceIdle
    /\ InitRateIdle
    /\ InitCacheIdle
    /\ InitFilesIdle

NextStore ==
    \/ \E item_id \in StoreItemIds, item_path \in StorePaths :
          add_item_static_route(item_id, item_path)
    \/ \E item_id \in StoreItemIds, item_path \in StorePaths :
          update_item_static_route(item_id, item_path)
    \/ \E item_id \in StoreItemIds : delete_item_static_route(item_id)

SpecStore == InitStore /\ [][NextStore]_vars

\* One listing, or runs of the synchronizer, over every storage tree of up to
\* MaxFiles files, every catalog of up to two items and every store of up to
\* one binding.
SyncFiles == {FileX, FileA, FileB, FileAPdf}

SyncTrees ==
    {tree \in SeqsUpTo(SyncFiles, MaxFiles) :
        \A i, j \in 1..Len(tree) : i # j => tree[i] # tree[j]}

SyncItemIds == {0, 7, 8}

SyncItems ==
    {[item_id |-> id, category |-> <<"docs">>, type |-> <<"pdf">>, name |-> <<n>>] :
        id \in SyncItemIds, n \in {"a", "b"}}

SyncCatalogs ==
    {items \in SeqsUpTo(SyncItems, 2) :
        \A i, j \in 1..Len(items) : i < j => items[i].item_id < items[j].item_id}

SyncTables ==
    {<<>>} \cup {<<Row(id, FILE_VIEW_PREPATH \o f, NoPath)>> :
                    id \in SyncItemIds, f \in SyncFiles \ {FileX}}

InitSync ==
    /\ InitOpsState
    /\ db = EmptyTree
    /\ InitIngestState(<<>>)
    /\ InitMatcherIdle
    /\ InitSanitizeIdle
    /\ InitServeIdle
    /\ InitPlaceIdle
    /\ InitGcIdle
    /\ InitStageIdle
    /\ InitRaceIdle
    /\ InitRateIdle
    /\ InitCacheIdle
    /\ InitFilesIdle
    /\ b_table \in SyncTables
    /\ b_last = NoCall
    /\ b_calls = 0
    /\ f_tree \in SyncTrees
    /\ f_items \in SyncCatalogs
    /\ f_handler = NoRoute
    /\ f_report = <<>>
    /\ f_runs = 0
    /\ f_first = NoRun

NextSync ==
    \/ \E items_up, static_up \in BOOLEAN : list_files(items_up, static_up)
    \/ \E outcomes \in [1..Len(f_tree) -> PutOutcomes] : sync_static_resources(outcomes)

SpecSync == InitSync /\ [][NextSync]_vars

\* One operation, polled at any times, on a clock of MaxTime ticks.
InitGc ==
    /\ InitOpsState
    /\ db = EmptyTree
    /\ InitIngestState(<<>>)
    /\ InitMatcherIdle
    /\ InitSanitizeIdle
    /\ InitServeIdle
    /\ InitPlaceIdle
    /\ InitSyncIdle
    /\ InitGcIdle
    /\ InitStageIdle
    /\ InitRaceIdle
    /\ InitRateIdle
    /\ InitCacheIdle
    /\ InitFilesIdle

NextGc ==
    \/ gc_tick
    \/ \E type \in {"backup", "restore", "restore_chunked"} : start_operation(type)
    \/ last_chunk
    \/ \E ok \in BOOLEAN : thread_ends(ok)
    \/ \E download \in BOOLEAN : operation_status(download)
    \/ \E at \in g_timers : cleanup_operation(at)

SpecGc == InitGc /\ [][NextGc]_vars

\* Time passes, a started thread ends and a started timer fires; no client has
\* to poll.
SpecGcFair ==
    /\ SpecGc
    /\ WF_vars(gc_tick)
    /\ WF_vars(\E ok \in BOOLEAN : thread_ends(ok))
    /\ WF_vars(\E at \in g_timers : cleanup_operation(at))

\* Two tar uploads for items of one category and type, starting at any seconds
\* and interleaving in any way.
InitStage ==
    /\ InitOpsState
    /\ db = EmptyTree
    /\ InitIngestState(<<>>)
    /\ InitMatcherIdle
    /\ InitSanitizeIdle
    /\ InitServeIdle
    /\ InitPlaceIdle
    /\ InitSyncIdle
    /\ InitGcIdle
    /\ InitStageIdle
    /\ InitRaceIdle
    /\ InitRateIdle
    /\ InitCacheIdle
    /\ InitFilesIdle

NextStage ==
    \/ stage_tick
    \/ \E u \in Uploaders, item_id \in StageItemIds, top \in TopDirs :
            stage_archive(u, item_id, top)
    \/ \E u \in Uploaders : copy_staged(u)
    \/ \E u \in Uploaders : remove_staged(u)

SpecStage == InitStage /\ [][NextStage]_vars

\* Two uploads for one item, with any file names, into a directory with any
\* files of earlier uploads, interleaving in any way.
InitRace ==
    /\ InitOpsState
    /\ db = EmptyTree
    /\ InitIngestState(<<>>)
    /\ InitMatcherIdle
    /\ InitSanitizeIdle
    /\ InitServeIdle
    /\ InitPlaceIdle
    /\ InitSyncIdle
    /\ InitGcIdle
    /\ InitStageIdle
    /\ k_dir \in TypeDirs
    /\ k_pc = [u \in Uploaders |-> "idle"]
    /\ k_saved = [u \in Uploaders |-> <<>>]
    /\ k_new = [u \in Uploaders |-> <<>>]
    /\ k_renamed = [u \in Uploaders |-> <<>>]
    /\ InitRateIdle
    /\ InitCacheIdle
    /\ InitFilesIdle

NextRace ==
    \/ \E u \in Uploaders, filename \in UploadNames \cup {<<"up2">>} :
            race_save(u, filename)
    \/ \E u \in Uploaders : race_probe(u)
    \/ \E u \in Uploaders : race_rename(u)

SpecRace == InitRace /\ [][NextRace]_vars

\* Requests from two addresses at any times, handled by two threads.
InitRate ==
    /\ InitOpsState
    /\ db = EmptyTree
    /\ InitIngestState(<<>>)
    /\ InitMatcherIdle
    /\ InitSanitizeIdle
    /\ InitServeIdle
    /\ InitPlaceIdle
    /\ InitSyncIdle
    /\ InitGcIdle
    /\ InitStageIdle
    /\ InitRaceIdle
    /\ InitRateIdle
    /\ InitCacheIdle
    /\ InitFilesIdle

NextRate ==
    \/ rate_tick
    \/ \E w \in Workers, ip \in ClientIps : rate_filter(w, ip)
    \/ \E w \in Workers : rate_store(w)
    \/ \E w \in Workers : rate_check(w)
    \/ \E w \in Workers : rate_append(w)

SpecRate == InitRate /\ [][NextRate]_vars

\* Calls of fetch_items at any times, with any answers of the items API.
InitCache ==
    /\ InitOpsState
    /\ db = EmptyTree
    /\ InitIngestState(<<>>)
    /\ InitMatcherIdle
    /\ InitSanitizeIdle
    /\ InitServeIdle
    /\ InitPlaceIdle
    /\ InitSyncIdle
    /\ InitGcIdle
    /\ InitStageIdle
    /\ InitRaceIdle
    /\ InitRateIdle
    /\ InitCacheIdle
    /\ InitFilesIdle

NextCache ==
    \/ cache_tick
    \/ \E outcome \in FetchOutcomes, items \in Catalogs : fetch_items(outcome, items)

SpecCache == InitCache /\ [][NextCache]_vars

\* Lists, uploads and deletes with any arguments, in any order.
InitFiles ==
    /\ InitOpsState
    /\ db = EmptyTree
    /\ InitIngestState(<<>>)
    /\ InitMatcherIdle
    /\ InitSanitizeIdle
    /\ InitServeIdle
    /\ InitPlaceIdle
    /\ InitSyncIdle
    /\ InitGcIdle
    /\ InitStageIdle
    /\ InitRaceIdle
    /\ InitRateIdle
    /\ InitCacheIdle
    /\ InitFilesIdle

NextFiles ==
    \/ \E item_id \in RequestItemIds, category \in RequestCategories,
          item_type \in RequestTypes : files_list(item_id, category, item_type)
    \/ \E item_id \in RequestItemIds, category \in RequestCategories,
          item_type \in RequestTypes, filename \in RequestFilenames, valid \in BOOLEAN :
            files_upload(item_id, category, item_type, filename, valid)
    \/ \E item_id \in RequestItemIds, category \in RequestCategories,
          item_type \in RequestTypes, filename \in RequestFilenames :
            files_delete(item_id, category, item_type, filename)

SpecFiles == InitFiles /\ [][NextFiles]_vars

\* ------------------------------------------------------------ claims

\* C1 (restore rollback): when process_restore_archive raised while opening or
\* extracting the archive, after the pre-restore copy was taken and the live tree
\* emptied, and the copy back from the pre-restore backup did not fail, then once
\* the thread has ended the operation is failed and the files of the live tree
\* and their contents are those the tree had when the restore began.
C1_RestoreRollback ==
    \A t \in 1..Len(tasks) :
        (/\ tasks[t].fn = "restore"
         /\ tasks[t].pc = "done"
         /\ tasks[t].raised \in {"open", "extract"}
         /\ tasks[t].rollback # "failed")
        => /\ active_operations[tasks[t].op].status = "failed"
           /\ db = tasks[t].T

\* a restore into a non-empty tree that extracted a member over it, then raised,
\* and was rolled back
C1_Witness ==
    \E t \in 1..Len(tasks) :
        /\ tasks[t].fn = "restore"
        /\ tasks[t].pc = "done"
        /\ tasks[t].raised = "extract"
        /\ tasks[t].i > 1
        /\ tasks[t].rollback = "ok"
        /\ tasks[t].T # EmptyTree
        /\ \E p \in DOMAIN tasks[t].T :
              tasks[t].z[1].k = "file" /\ tasks[t].z[1].path = p
              /\ tasks[t].z[1].data # tasks[t].T[p]

\* the bytes before chunk i in a file made of the chunks sent, in index order
RECURSIVE OffsetOf(_, _)
OffsetOf(sent, i) ==
    IF i = 0 THEN 0 ELSE OffsetOf(sent, i - 1) + Len(sent[i - 1])

IsInIndexOrder(bytes, sent, total) ==
    /\ Len(bytes) = OffsetOf(sent, total)
    /\ \A i \in 0..(total - 1) : \A j \in 1..Len(sent[i]) :
          bytes[OffsetOf(sent, i) + j] = sent[i][j]

\* every call so far brought a chunk index of 0..total-1 not brought before
EachChunkOnce(id) ==
    /\ DOMAIN hist[id].sent \subseteq 0..(active_operations[id].total_chunks - 1)
    /\ Cardinality(DOMAIN hist[id].sent) = active_operations[id].chunks_received

\* C2 (chunked restore): for an operation initialised with total_chunks = N >= 1
\* whose chunk uploads so far each brought a different index of 0..N-1, in any
\* order: before the N-th chunk nothing was concatenated and no restore thread
\* was started; with the N-th chunk exactly one concatenation has happened, its
\* result is the chunks sent joined in index order, and exactly one restore
\* thread was started.
C2_ChunkedRestore ==
    \A id \in DOMAIN active_operations :
        LET op == active_operations[id]
            h == hist[id]
        IN
        (op.type = "restore_chunked" /\ op.total_chunks >= 1 /\ EachChunkOnce(id))
        => IF op.chunks_received < op.total_chunks
           THEN h.concats = 0 /\ h.starts = 0
           ELSE /\ h.concats = 1
                /\ h.starts = 1
                /\ IsInIndexOrder(h.joined, h.sent, op.total_chunks)

\* an operation of two or more chunks has received them all
C2_Witness ==
    \E id \in DOMAIN active_operations :
        /\ active_operations[id].type = "restore_chunked"
        /\ active_operations[id].total_chunks >= 2
        /\ EachChunkOnce(id)
        /\ active_operations[id].chunks_received = active_operations[id].total_chunks
        /\ hist[id].starts = 1
        /\ hist[id].joined[1] # hist[id].joined[2]

AllowedEdge(type, from, to) ==
    \/ type = "backup" /\ from = "in_progress" /\ to \in Terminal
    \/ /\ type \in {"restore", "restore_chunked"}
       /\ \/ from \in {"in_progress", "receiving_chunks"} /\ to = "processing"
          \/ from = "processing" /\ to \in Terminal

\* C3 (status transitions): every change of the status of a registry entry is
\* in_progress -> completed | failed for a backup, and for a restore
\* in_progress | receiving_chunks -> processing or processing -> completed |
\* failed. (An entry replaced by a new operation is a new entry.)
C3_StatusTransitions ==
    [][\A id \in DOMAIN active_operations :
          (hist'[id].owner = hist[id].owner
           /\ active_operations'[id].status # active_operations[id].status)
          => AllowedEdge(active_operations[id].type,
                         active_operations[id].status,
                         active_operations'[id].status)]_vars

\* C4 (no operation stays non-terminal forever): only the background threads
\* write completed or failed, so an entry that is in_progress or processing
\* reaches a terminal status only if a thread that has not ended yet works for
\* it; every such entry has one.
C4_NoOrphanedOperation ==
    \A id \in DOMAIN active_operations :
        active_operations[id].status \in {"in_progress", "processing"}
        => \E t \in 1..Len(tasks) : tasks[t].op = id /\ tasks[t].pc # "done"

\* C5 (unique operation ids): creating an operation never replaces an entry of
\* the registry.
C5_UniqueOperationIds ==
    [][\A id \in DOMAIN active_operations : hist'[id].owner = hist[id].owner]_vars

\* r is a wrapper chain of the tree: the top holds r[1] alone, and each directory
\* above r holds the next one alone
IsWrapperChain(tree, r) ==
    /\ Len(r) >= 1
    /\ IsDir(tree, r)
    /\ \A k \in 0..(Len(r) - 1) : Listdir(tree, SubSeq(r, 1, k)) = {SubSeq(r, 1, k + 1)}

\* r holds no entry, several entries, or a single file
StopsAt(tree, r) ==
    \/ Cardinality(Listdir(tree, r)) # 1
    \/ \E p \in Listdir(tree, r) : tree[p] = "file"

\* the entries below r, named from r
EntriesOf(tree, r) ==
    [q \in {SubSeq(p, Len(r) + 1, Len(p)) : p \in {x \in DOMAIN tree : IsUnder(x, r)}}
        |-> tree[r \o q]]

TarSucceeded == u_kind = "tar" /\ u_pc = "done" /\ resp = 200

\* C6 (tar root discovery, single-chain wrapper): when the extracted tree holds one
\* top-level entry and it is a directory, and r ends the chain of directories that
\* each hold one directory alone (r holds no entry, several, or a single file),
\* a successful upload found r and the destination folder holds exactly the
\* entries of r, named from r.
C6_SingleChainRoot ==
    TarSucceeded =>
        \A r \in DOMAIN u_archive :
            (IsWrapperChain(u_archive, r) /\ StopsAt(u_archive, r))
            => u_root = r /\ dest = EntriesOf(u_archive, r)

\* a/b/{a,b}: the two files of the second directory of the chain arrived
C6_Witness ==
    /\ TarSucceeded
    /\ \E r \in DOMAIN u_archive :
          /\ Len(r) = 2
          /\ IsWrapperChain(u_archive, r) /\ StopsAt(u_archive, r)
          /\ Cardinality(FilesOf(dest)) = 2

C8_AtomicIngestionFailure ==
    (u_kind \in {"zip", "tar"} /\ u_pc = "done" /\ u_failed \in {"open", "extract"})
    => resp # 200 /\ FilesOf(dest) = {}

\* C9 (staging cleanup): when upload_folder_direct has returned, with success or
\* after a failure of the extraction, the root discovery or a copy, its staging
\* directory does not exist.
C9_StagingCleanup ==
    (u_kind = "tar" /\ u_pc = "done") => ~staging_exists /\ staging = EmptyTree

\* a copy raised after an entry had been copied out of the staging directory
C9_Witness ==
    /\ u_kind = "tar" /\ u_pc = "done"
    /\ u_failed = "copy"
    /\ resp = 400
    /\ dest # EmptyTree

\* the files an upload whose ingestion did not fail has stored
StoredFiles ==
    IF u_kind = "single" THEN {u_saved} \cap DOMAIN type_dir ELSE FilesOf(dest)

\* C10 (binding failures never abort an upload): an upload of any kind whose files
\* were all stored reports success whatever the upserts' outcomes were, its files
\* are stored, and the upsert was attempted for each of them.
C10_BindingFailuresTolerated ==
    (u_pc = "done" /\ u_failed = "none")
    => /\ resp = 200
       /\ StoredFiles # {} \/ u_kind # "single"
       /\ DOMAIN u_files = StoredFiles

\* a ZIP upload one of whose upserts met an unreachable upstream and another a
\* non-200 answer
C10_Witness ==
    /\ u_kind = "zip" /\ u_pc = "done" /\ resp = 200
    /\ \E f, g \in DOMAIN u_files :
          u_files[f] = "unreachable" /\ u_files[g] = "non200"

\* the i-th static resource holds the path of the call
Holds(i) == IsSubstring(m_file_path, StripPrepath(m_static[i].item_path))

NoResourceHolds == \A i \in 1..Len(m_static) : ~Holds(i)

\* C11 (matcher priority): when the path of some static resource, the view prefix
\* stripped, contains the relative path, predict_item_id returns the item id of
\* such a resource, whatever the catalog is and however many segments the path has.
C11_MatcherPriority ==
    (m_pc = "done" /\ ~NoResourceHolds)
    => \E i \in 1..Len(m_static) : Holds(i) /\ m_result = m_static[i].item_id

\* a path of one segment, held by the second static resource inside a longer path
\* and not by the first, with an item in the catalog
C11_Witness ==
    /\ m_pc = "done"
    /\ Len(Split(m_file_path)) = 1
    /\ Len(m_static) = 2 /\ ~Holds(1) /\ Holds(2)
    /\ StripPrepath(m_static[2].item_path) # m_file_path
    /\ m_items # <<>>
    /\ m_result = m_static[2].item_id

\* the item is of the category and type that the first two segments name
OfPathCategoryType(item) ==
    /\ Len(Split(m_file_path)) >= 2
    /\ item.category = Split(m_file_path)[1]
    /\ item.type = Split(m_file_path)[2]

\* C12 (matcher category/type filter): when no static resource holds the path,
\* predict_item_id returns none if the path has fewer than two segments or no item
\* is of the category of the first and the type of the second; otherwise it
\* returns an item of exactly that category and type.
C12_CategoryTypeFilter ==
    (m_pc = "done" /\ NoResourceHolds)
    => IF \E i \in 1..Len(m_items) : OfPathCategoryType(m_items[i])
       THEN \E i \in 1..Len(m_items) :
               OfPathCategoryType(m_items[i]) /\ m_result = m_items[i].item_id
       ELSE m_result = NoItem

\* the first item has the category but not the type and the greater score; the
\* second item is returned
C12_Witness ==
    /\ m_pc = "done" /\ NoResourceHolds
    /\ Len(m_items) = 2
    /\ Len(Split(m_file_path)) >= 2
    /\ m_items[1].category = Split(m_file_path)[1]
    /\ m_items[1].type # Split(m_file_path)[2]
    /\ OfPathCategoryType(m_items[2])
    /\ m_items[1].similarity > m_items[2].similarity
    /\ m_result = m_items[2].item_id

\* the number a name ends in after an underscore, -1 if it does not end so
RECURSIVE TrailingDigitsFrom(_, _)
TrailingDigitsFrom(b, i) ==
    IF i >= 1 /\ b[i] \in Digits THEN TrailingDigitsFrom(b, i - 1) ELSE i

EmbeddedId(b) ==
    LET u == TrailingDigitsFrom(b, Len(b)) IN
    IF u >= 1 /\ u < Len(b) /\ b[u] = "_" THEN IntOf(b, u + 1, Len(b)) ELSE -1

\* the score of the item without any id boost
UnboostedScore(item) == item.similarity + (IF item.details_match THEN 3 ELSE 0)

\* C13 (matcher fallback on an embedded id): with no static resources, for a file
\* whose name, the extension stripped, ends in _<digits>, an item of the path's
\* category and type that has that number as its id receives the id boost, and
\* predict_item_id returns it when that boost puts its score above the score of
\* every other candidate.
C13_EmbeddedIdFallback ==
    (m_pc = "done" /\ m_static = <<>>)
    => \A i \in 1..Len(m_items) :
          (/\ OfPathCategoryType(m_items[i])
           /\ m_items[i].item_id = EmbeddedId(SplitextBase(Basename(m_file_path)))
           /\ \A j \in 1..Len(m_items) :
                 (j # i /\ OfPathCategoryType(m_items[j]))
                 => Similarity(m_items[j], Basename(m_file_path))
                    < UnboostedScore(m_items[i]) + 5)
          => m_result = m_items[i].item_id

\* C14 (matcher tie-break): when no static resource holds the path and an item is
\* returned, it is the first item in catalog order among the items of the path's
\* category and type that have the highest score.
C14_TieBreak ==
    (m_pc = "done" /\ NoResourceHolds /\ m_result # NoItem)
    => \E i \in 1..Len(m_items) :
          /\ OfPathCategoryType(m_items[i])
          /\ m_result = m_items[i].item_id
          /\ \A j \in 1..Len(m_items) :
                OfPathCategoryType(m_items[j])
                => LET si == Similarity(m_items[i], Basename(m_file_path))
                       sj == Similarity(m_items[j], Basename(m_file_path))
                   IN sj < si \/ (sj = si /\ i <= j)

\* two candidates of different ratios whose scores tie through the id boost: the
\* first is returned
C14_Witness ==
    /\ m_pc = "done" /\ NoResourceHolds
    /\ Len(m_items) = 2
    /\ OfPathCategoryType(m_items[1]) /\ OfPathCategoryType(m_items[2])
    /\ m_items[1].similarity # m_items[2].similarity
    /\ Similarity(m_items[1], Basename(m_file_path))
       = Similarity(m_items[2], Basename(m_file_path))
    /\ m_result = m_items[1].item_id

\* C15 (single-file upload never overwrites silently): no step of a single-file
\* upload removes the content of a stored file from the type directory, and the
\* save of the uploaded file adds one file to it.
C15_NoSilentOverwrite ==
    [][/\ \A n \in DOMAIN type_dir : \E k \in DOMAIN type_dir' : type_dir'[k] = type_dir[n]
       /\ (u_pc = "idle" /\ u_pc' = "rename")
          => Cardinality(DOMAIN type_dir') = Cardinality(DOMAIN type_dir) + 1]_vars

\* C16 (collision resolution result): the path a rename chooses is not in the
\* directory at the time of the check; it is the base name if that is free, else
\* the base name with the smallest suffix k >= 1 that is free.
C16_CollisionResolution ==
    [][(u_pc = "rename" /\ u_saved' # u_saved)
       => /\ u_saved' \notin DOMAIN type_dir
          /\ \/ u_saved' = <<ItemName>>
             \/ /\ <<ItemName>> \in DOMAIN type_dir
                /\ \E k \in 1..Len(SuffixStr) :
                      /\ u_saved' = <<ItemName, SuffixStr[k]>>
                      /\ \A j \in 1..(k - 1) : <<ItemName, SuffixStr[j]>> \in DOMAIN type_dir]_vars

\* a file was renamed to the base name with suffix 2, the base name and suffix 1
\* being taken
C16_Witness ==
    /\ u_kind = "single" /\ u_pc = "bind"
    /\ u_saved = <<ItemName, SuffixStr[2]>>
    /\ {<<ItemName>>, <<ItemName, SuffixStr[1]>>} \subseteq DOMAIN type_dir

\* the characters [A-Za-z0-9_.-]
IsAllowedChar(c) == c \in {"a", "7", "_", ".", "-"}

IsWhitespace(c) == c \in {" ", "\t"}

\* the name with every whitespace character turned into an underscore and every
\* other character outside [A-Za-z0-9_.-] left out
RECURSIVE Sanitised(_)
Sanitised(name) ==
    IF name = <<>> THEN <<>>
    ELSE (IF IsWhitespace(Head(name)) THEN <<"_">>
          ELSE IF IsAllowedChar(Head(name)) THEN <<Head(name)>>
          ELSE <<>>) \o Sanitised(Tail(name))

\* C17 (filename sanitisation): for every name sanitize_filename returns a
\* non-empty string of characters of [A-Za-z0-9_.-] only, in which every
\* whitespace character of the name has become an underscore; a name that
\* sanitises to nothing gives "unnamed_file".
C17_Sanitisation ==
    s_pc = "done"
    => /\ s_result # <<>>
       /\ s_result = IF Sanitised(s_name) = <<>> THEN UNNAMED_FILE ELSE Sanitised(s_name)

\* the location of <storage root>/<category>/<type> of the item
TypeDirOf(item_details) == Locate(DirPathOf(item_details))

\* C18 (placement invariant): whatever filename, relative path or member name
\* the client sends, every location an upload handler writes to lies under
\* <storage root>/<category>/<type> of the item, and nothing is written when
\* the item's category or type is missing or empty.
C18_Placement ==
    p_pc = "done"
    => /\ (~p_details.found \/ MissingCategoryOrType(p_details)) => p_written = {}
       /\ \A loc \in p_written : IsUnder(loc, TypeDirOf(p_details))

\* the location of the storage root
StorageRoot == CWD \o <<"db">>

UnderStorageRoot(loc) == loc = StorageRoot \/ IsUnder(loc, StorageRoot)

\* C19 (read-side confinement): whatever the path of a view, download,
\* download-folder or browse request is, every file or directory read for it lies
\* under the storage root.
C19_ReadConfinement ==
    r_pc = "done" => \A loc \in r_read : UnderStorageRoot(loc)

\* a request whose path goes up once between two names was served a file
C19_Witness ==
    /\ r_pc = "done" /\ r_status = 200
    /\ \E i \in 2..Len(r_path.segs) : r_path.segs[i] = ".."
    /\ r_read # {}

\* C20 (read-side error codes): a request whose normalised path starts with a
\* parent-directory escape is answered 403, and a request for a path that does
\* not exist under the storage root is answered 404.
C20_ReadErrorCodes ==
    (r_pc = "done" /\ r_handler # "none")
    => LET safe_path == normpath(r_path)
           loc == Locate(join(base_dir, safe_path))
       IN IF StartsWithDots(safe_path) THEN r_status = 403
          ELSE (loc \notin ServedFiles \cup ServedDirs) => r_status = 404

\* the paths of a report, in its order
PathsOf(report) == [k \in 1..Len(report) |-> report[k].path]

\* C21 (listing under metadata outage): when neither the item catalog nor the
\* binding list can be fetched, GET /files still answers with every file under
\* the storage root exactly once, each with item_id none.
C21_ListingUnderOutage ==
    (f_handler.route = "list_files" /\ ~f_handler.items_up /\ ~f_handler.static_up)
    => /\ PathsOf(f_report) = f_tree
       /\ \A k \in 1..Len(f_report) : f_report[k].item_id = NoItem

\* a listing under outage of a tree with a file that the catalog and the store,
\* had they been reachable, would have given an item
C21_Witness ==
    /\ f_handler.route = "list_files" /\ ~f_handler.items_up /\ ~f_handler.static_up
    /\ \E k \in 1..Len(f_tree) :
          PredictFor(f_tree[k], f_items, TRUE, GetAllItemsStatic(b_table)) # NoItem

SyncStatuses == {"updated", "update_failed", "error", "no_item_id"}

\* C22 (synchronizer report): sync_static_resources reports every file under
\* the storage root exactly once with one of the four statuses, attempts an
\* upsert for every file the matcher gave an item id, whatever integer it is,
\* and reports no_item_id only when the matcher gave none.
C22_SyncReport ==
    f_handler.route = "sync_static_resources"
    => /\ PathsOf(f_report) = f_tree
       /\ \A k \in 1..Len(f_report) :
             /\ f_report[k].status \in SyncStatuses
             /\ f_report[k].status = "no_item_id" <=> f_report[k].predicted = NoItem

\* a run none of whose upserts failed
AllPut(report) ==
    \A k \in 1..Len(report) : report[k].status \in {"updated", "no_item_id"}

\* the item ids of a report, in its order
IdsOf(report) == [k \in 1..Len(report) |-> report[k].item_id]

\* C23 (synchronizer idempotence): with all upserts succeeding and nothing else
\* changing, a second run of sync_static_resources leaves the bindings of the
\* first run and gives every file the item id the first run gave it.
C23_SyncIdempotent ==
    (f_runs = 2 /\ AllPut(f_first.files) /\ AllPut(f_report))
    => /\ b_table = f_first.table
       /\ IdsOf(f_report) = IdsOf(f_first.files)

\* C24 (binding store): after any calls of add, update and delete the store
\* holds at most one binding for an item, and after an add or an update with a
\* path a read of the item's binding gives that path.
C24_BindingStore ==
    /\ \A item_id \in StoreItemIds : Len(RowsOf(b_table, item_id)) <= 1
    /\ (b_last.op \in {"add", "update"} /\ b_last.item_path # NoPath)
       => GetItemStatic(b_table, b_last.item_id)
          = [status |-> 200, item_path |-> b_last.item_path]

\* an update with a path of an item that was bound to another path
C24_Witness ==
    /\ b_calls >= 2
    /\ b_last.op = "update" /\ b_last.item_path = FILE_VIEW_PREPATH \o FileB
    /\ Len(b_table) = 2

\* C25 (retention window): for an hour after an operation has completed or
\* failed its entry is in the registry and, for a completed backup, its archive
\* is on disk; the entry is removed only a further 5 minutes after that hour.
C25_RetentionWindow ==
    g_hist.at >= 0
    => /\ g_now <= g_hist.at + RETENTION
          => /\ g_registry # <<>>
             /\ (g_hist.type = "backup" /\ g_hist.status = "completed")
                => "backup_zip" \in g_files
       /\ g_registry = <<>> => g_now >= g_hist.at + RETENTION + GRACE

\* the operation has ended and its window and the grace delay have passed
WindowPassed == g_hist.at >= 0 /\ g_now > g_hist.at + RETENTION + GRACE

\* the operation's entry and its temporary files are gone
Collected == g_registry = <<>> /\ g_files = {}

\* C26 (garbage collection): an operation that has completed or failed is,
\* once its retention window has passed, eventually collected: its temporary
\* files are deleted and its entry is removed, whether or not a client polls.
C26_GarbageCollected == WindowPassed ~> Collected

\* C27 (id-match bonus): the id bonus of a candidate is exactly 0.5 when an id
\* pattern finds the candidate's item_id in the file name, however many of the
\* three patterns find it, and 0 otherwise, so that a score is never above the
\* ratio + 0.5 + 0.3.
C27_IdBonus ==
    m_pc = "done"
    => \A k \in 1..Len(m_items) :
          LET item == m_items[k]
              file_name == Basename(m_file_path)
              found == \E pattern \in 1..3 :
                          SearchId(pattern, SplitextBase(file_name)) = item.item_id
              path_parts == Split(m_file_path)
          IN (Len(path_parts) >= 2 /\ IsCandidate(item, path_parts[1], path_parts[2]))
             => /\ IdBoost(item.item_id, SplitextBase(file_name))
                   = IF found THEN 5 ELSE 0
                /\ Similarity(item, file_name) <= item.similarity + 5 + 3

\* C30 (completed backup is downloadable): in every reachable state, also
\* between two steps of the backup thread, a backup whose status is completed
\* has its file_path recorded and its archive written, so that a status poll
\* with the download flag is answered with the archive.
C30_CompletedBackupDownloadable ==
    \A operation_id \in DOMAIN active_operations :
        (active_operations[operation_id].type = "backup"
         /\ active_operations[operation_id].status = "completed")
        => /\ active_operations[operation_id].file_path = TRUE
           /\ operation_id \in DOMAIN tmp_backup
           /\ DownloadAnswer(operation_id) = "archive"

\* C28 (staging isolation): two tar uploads that are in flight together never
\* share a staging directory, and an upload that has answered has answered 200
\* and its folder holds entries of its own archive only.
C28_StagingIsolation ==
    /\ \A u, v \in Uploaders :
            u # v /\ t_pc[u] \in {"staged", "copied"} /\ t_pc[v] \in {"staged", "copied"}
                => TempDirOf(t_stamp[u]) # TempDirOf(t_stamp[v])
    /\ \A u \in Uploaders : t_pc[u] = "done" =>
            /\ t_resp[u] = 200
            /\ \A path \in t_dest[FolderOf(u)] : OwnerOf(path) = u

\* C29 (concurrent collision resolution): once two interleaved uploads for one
\* item have both returned, the directory holds two distinct files, one for each
\* upload with that upload's content, next to the files stored before.
C29_TwoDistinctFiles ==
    (\A u \in Uploaders : k_pc[u] = "done") =>
        \E n1, n2 \in DOMAIN k_dir :
            /\ n1 # n2
            /\ k_dir[n1] = UploadedContent(0)
            /\ k_dir[n2] = UploadedContent(1)

\* the requests of ip let through at a time later than current_time - RATE_TIME
\* and not later than current_time
AdmittedIn(ip, current_time) ==
    {i \in 1..Len(q_admitted) :
        /\ q_admitted[i][1] = ip
        /\ current_time - RATE_TIME < q_admitted[i][2]
        /\ q_admitted[i][2] <= current_time}

\* C31 (rate limit bound): for every address, no more than RATE_LIMIT requests
\* are let through within RATE_TIME, also when the requests of one address are
\* handled by two threads, and a request answered 429 is not recorded.
C31_RateLimitBound ==
    /\ \A ip \in ClientIps, current_time \in 0..MaxTicks :
            Cardinality(AdmittedIn(ip, current_time)) <= RATE_LIMIT
    /\ q_last.status = 429 => ~q_last.recorded

\* a failed call returns the catalog of the most recent successful fetch
StaleServed ==
    (i_last.contacted /\ i_last.outcome # "ok") => i_last.returned = i_hist.last_ok

\* within CACHE_TTL of a successful fetch of a catalog that is not empty, the
\* cached catalog is returned and the items API is not called
FreshServed ==
    (i_last.called /\ i_last.fresh) =>
        ~i_last.contacted /\ i_last.returned = i_last.before

\* C32 as stated (metadata cache): a failed call returns the catalog of the most
\* recent successful fetch, the empty list is returned only if no successful
\* fetch of a catalog that is not empty ever happened, and within CACHE_TTL of
\* such a fetch the cache is returned without a call of the items API.
C32_MetadataCache_AsStated ==
    /\ StaleServed
    /\ (i_last.called /\ i_last.returned = <<>>) => ~i_hist.nonempty_ever
    /\ FreshServed

\* C32 (metadata cache), amended: a failed call returns the catalog of the most
\* recent successful fetch, the empty list is returned only if the most recent
\* successful fetch gave the empty list or no fetch was successful, and within
\* CACHE_TTL of a successful fetch of a catalog that is not empty the cache is
\* returned without a call of the items API.
C32_MetadataCache ==
    /\ StaleServed
    /\ (i_last.called /\ i_last.returned = <<>>) =>
            (~i_hist.ok_ever \/ i_hist.last_ok = <<>>)
    /\ FreshServed

\* a failed call after the cache ran out has returned the stale catalog
C32_Witness ==
    /\ i_last.contacted /\ i_last.outcome # "ok"
    /\ i_last.returned # <<>>
    /\ i_now - i_cache.timestamp >= CACHE_TTL

\* C33 (backup/restore round trip): when the archive of a backup of the live tree
\* T was restored successfully after uploads and deletes, the files of the live
\* tree and their contents are those of T.
C33_RoundTrip ==
    (/\ Len(tasks) = 2
     /\ tasks[2].pc \in {"rmzip", "done"}
     /\ tasks[2].raised = "none") => db = tasks[1].T

\* the restore ran into a tree that had a file T had not and lacked a file of T
C33_Witness ==
    /\ Len(tasks) = 2 /\ tasks[2].pc = "done" /\ tasks[2].raised = "none"
    /\ active_operations[tasks[2].op].status = "completed"
    /\ db = tasks[1].T
    /\ DOMAIN tasks[2].T \ DOMAIN tasks[1].T # {}
    /\ DOMAIN tasks[1].T \ DOMAIN tasks[2].T # {}

\* C34 (failure before mutation): when process_restore_archive raised while
\* copying the live tree to the pre-restore backup, then once the thread has ended
\* the operation is failed and the files of the live tree and their contents are
\* those the tree had when the restore began.
C34_CopyFailureLeavesTree ==
    \A t \in 1..Len(tasks) :
        (/\ tasks[t].fn = "restore"
         /\ tasks[t].pc = "done"
         /\ tasks[t].raised = "copy")
        => /\ active_operations[tasks[t].op].status = "failed"
           /\ db = tasks[t].T

\* C35 (chunk completeness): chunks_received of a chunked restore is the number
\* of distinct chunk indices received, and the combined file is written and the
\* restore thread started only when total_chunks is positive and a chunk was
\* received for every index below it.
C35_ChunkCompleteness ==
    \A id \in DOMAIN active_operations :
        LET op_info == active_operations[id] IN
        op_info.type = "restore_chunked" =>
            /\ op_info.chunks_received = Cardinality(DOMAIN hist[id].sent)
            /\ (id \in DOMAIN tmp_restore \/ hist[id].starts > 0) =>
                    /\ op_info.total_chunks > 0
                    /\ \A i \in 0..(op_info.total_chunks - 1) :
                            i \in DOMAIN hist[id].sent

\* the tree a restore of the members z into an emptied tree leaves
RECURSIVE TreeOfMembers(_, _)
TreeOfMembers(z, n) ==
    IF n = 0 THEN EmptyTree
    ELSE IF StartsWithDb(z[n].path)
         THEN Put(TreeOfMembers(z, n - 1), z[n].path, z[n].data)
         ELSE TreeOfMembers(z, n - 1)

\* C36 (concurrent restores are serialisable): once the threads of two restores
\* have ended and both restores are completed, the live tree holds the files of
\* exactly one of the two archives, as after the two restores one after the other.
C36_RestoresSerialisable ==
    (/\ Len(tasks) >= 2
     /\ \A t \in 1..Len(tasks) :
            /\ tasks[t].pc = "done" /\ tasks[t].raised = "none"
            /\ active_operations[tasks[t].op].status = "completed")
    => \E t \in 1..Len(tasks) : db = TreeOfMembers(tasks[t].z, Len(tasks[t].z))

\* C37 (delete by item id): after a DELETE with an item_id and no filename,
\* every file that was uploaded with another item_id is still stored.
C37_DeleteByItemId ==
    h_last.operation = "delete_item" =>
        \A k \in DOMAIN h_last.files :
            h_last.files[k] \notin {h_last.item_id, NoItem} => k \in DOMAIN h_files

\* C38 (reads do not change the tree): after a list request, and after an upload
\* or a delete that was refused with 400 or 404, the files and the directories
\* under the storage root are those before the request.
C38_ReadsLeaveTree ==
    (h_last.operation = "list" \/ h_last.status \in {400, 404}) =>
        /\ h_dirs = h_last.dirs
        /\ h_files = h_last.files

====
